---- MODULE Spec2Model ----
(***************************************************************************)
(* The APOD proxy server (src/server.js): an in-memory TTL cache and the   *)
(* /apod-proxy handler, which resolves a date through four strategies in   *)
(* order.  Each await of the handler is a point where other requests and   *)
(* the clock may move, so one request is a sequence of steps.              *)
(*                                                                         *)
(* JavaScript values are records: Undefined, Null, JTrue, JFalse, Str(s)   *)
(* for a string, Arr(s) for an array, and a record of fields for an        *)
(* object.  A string is the sequence of its characters wherever the code   *)
(* looks into it (dates, hrefs); a text the code only passes on or         *)
(* concatenates is a sequence of one piece.                                *)
(***************************************************************************)
EXTENDS Integers, Sequences, FiniteSets, TLC

\* ------------------------------------------------------------ bounds
MaxReqs == 2
MaxCalls == 2
MaxTicks == 2

\* ------------------------------------------------- JavaScript values
Undefined == [undefined |-> TRUE]
Null == [null |-> TRUE]
JTrue == [bool |-> TRUE]
JFalse == [bool |-> FALSE]
Thrown == [thrown |-> TRUE]
Str(s) == [str |-> s]
IsString(v) == DOMAIN v = {"str"}
Truthy(v) == v \notin {Undefined, Null, JFalse, Str(<<>>)}
Or(a, b) == IF Truthy(a) THEN a ELSE b
Get(obj, f) == IF f \in DOMAIN obj THEN obj[f] ELSE Undefined

\* ------------------------------------------------------------ strings
Digits == {"0", "1", "2", "3", "4", "5", "6", "7", "8", "9"}
UpperToLower == [A |-> "a", B |-> "b", C |-> "c", D |-> "d", E |-> "e", F |-> "f", G |-> "g",
                 H |-> "h", I |-> "i", J |-> "j", K |-> "k", L |-> "l", M |-> "m", N |-> "n",
                 O |-> "o", P |-> "p", Q |-> "q", R |-> "r", S |-> "s", T |-> "t", U |-> "u",
                 V |-> "v", W |-> "w", X |-> "x", Y |-> "y", Z |-> "z"]
Lower(s) == [i \in 1..Len(s) |-> IF s[i] \in DOMAIN UpperToLower THEN UpperToLower[s[i]] ELSE s[i]]
StartsWith(s, p) == Len(s) >= Len(p) /\ SubSeq(s, 1, Len(p)) = p
EndsWith(s, p) == Len(s) >= Len(p) /\ SubSeq(s, Len(s) - Len(p) + 1, Len(s)) = p
Contains(s, p) == \E i \in 1..(Len(s) - Len(p) + 1) : SubSeq(s, i, i + Len(p) - 1) = p
Slice(s, n) == IF Len(s) <= n THEN s ELSE SubSeq(s, 1, n)
RECURSIVE Split(_, _)
Split(s, sep) ==
  IF \E i \in 1..Len(s) : s[i] = sep
    THEN LET i == CHOOSE j \in 1..Len(s) : s[j] = sep /\ \A k \in 1..(j - 1) : s[k] # sep
         IN <<SubSeq(s, 1, i - 1)>> \o Split(SubSeq(s, i + 1, Len(s)), sep)
    ELSE <<s>>

\* ------------------------------------------- string literals of the code
SRC_APOD_API == <<"apod-api">>
SRC_APOD_SCRAPE == <<"apod-scrape">>
SRC_APOD_WAYBACK == <<"apod-wayback">>
SRC_IMAGES_FALLBACK == <<"images-api-fallback">>
KEY_APOD == <<"apod:">>
APOD_BASE == <<"https://apod.nasa.gov/apod/">>
APOD_PAGE_PREFIX == <<"https://apod.nasa.gov/apod/ap">>
HTML_EXT == <<".html">>
IMAGE == <<"image">>
VIDEO == <<"video">>

\* ------------------------------------------------------- the TTL cache
\* server.js:25.  Date.now() is in milliseconds.
CACHE_TTL_MS == 24 * 60 * 60 * 1000

\* An entry of the Map `cache`: { data, expires }.  The Map itself is a
\* function from the keys present to their entries.
Entry(data, expires) == [data |-> data, expires |-> expires]

\* Faulty variants of cacheGet, each wrong in one line of server.js:30-33: the
\* comparison made >=, the delete left out, the expiry test left out.
cacheGetExpiredAtExpiry(c, key, t) ==
  IF key \notin DOMAIN c THEN [ret |-> Null, cache |-> c]
  ELSE IF t >= c[key].expires
    THEN [ret |-> Null, cache |-> [k \in DOMAIN c \ {key} |-> c[k]]]
    ELSE [ret |-> c[key].data, cache |-> c]
cacheGetNoDelete(c, key, t) ==
  IF key \notin DOMAIN c THEN [ret |-> Null, cache |-> c]
  ELSE IF t > c[key].expires
    THEN [ret |-> Null, cache |-> c]
    ELSE [ret |-> c[key].data, cache |-> c]
cacheGetNoExpiry(c, key, t) ==
  IF key \notin DOMAIN c THEN [ret |-> Null, cache |-> c]
  ELSE [ret |-> c[key].data, cache |-> c]

\* A faulty variant of cacheGet: every read removes every expired entry.
cacheGetSweep(c, key, t) ==
  LET swept == [k \in {j \in DOMAIN c : t <= c[j].expires} |-> c[k]]
  IN  IF key \notin DOMAIN swept THEN [ret |-> Null, cache |-> swept]
      ELSE [ret |-> c[key].data, cache |-> swept]

\* A faulty variant of cacheGet: a hit renews the entry's expiry.
cacheGetTouch(c, key, t) ==
  IF key \notin DOMAIN c THEN [ret |-> Null, cache |-> c]
  ELSE IF t > c[key].expires
    THEN [ret |-> Null, cache |-> [k \in DOMAIN c \ {key} |-> c[k]]]
    ELSE [ret |-> c[key].data,
          cache |-> (key :> Entry(c[key].data, t + CACHE_TTL_MS)) @@ c]

\* cacheGet(key) at time t on cache c: the value returned and the cache after.
cacheGet(c, key, t) ==
  IF key \notin DOMAIN c THEN [ret |-> Null, cache |-> c]
  ELSE IF t > c[key].expires
    THEN [ret |-> Null, cache |-> [k \in DOMAIN c \ {key} |-> c[k]]]
    ELSE [ret |-> c[key].data, cache |-> c]

\* A faulty variant of cacheSet: the ttl taken for seconds.
cacheSetTtlSeconds(c, key, data, ttl, t) == (key :> Entry(data, t + ttl \div 1000)) @@ c

\* A faulty variant of cacheSet: a key already present is left as it is.
cacheSetIfAbsent(c, key, data, ttl, t) ==
  IF key \in DOMAIN c THEN c ELSE (key :> Entry(data, t + ttl)) @@ c

\* A faulty variant of cacheSet: the Map holds one entry, a write evicts the rest.
cacheSetEvicting(c, key, data, ttl, t) == key :> Entry(data, t + ttl)

\* cacheSet(key, data, ttl) at time t on cache c: the cache after.
cacheSet(c, key, data, ttl, t) == (key :> Entry(data, t + ttl)) @@ c

\* --------------------------------------------------- upstream responses
\* What an outbound request can come back with: a network error or timeout
\* (axios rejects), or an HTTP response with a status and a body.
NetError == [error |-> TRUE, status |-> 0, data |-> Undefined]
Http(status, data) == [error |-> FALSE, status |-> status, data |-> data]

\* axios.get: rejects on a network error, a timeout, and (default
\* validateStatus) on every status outside 200..299.
axiosGet(resp) ==
  IF resp.error \/ resp.status < 200 \/ resp.status >= 300
    THEN Thrown
    ELSE [status |-> resp.status, data |-> resp.data]

\* ------------------------------------------------------- the strategies
\* `https://apod.nasa.gov/apod/ap${yy}${m}${d}.html`
dateToApodPage(dateStr) ==
  LET parts == Split(dateStr, "-")
      y == parts[1]
      m == parts[2]
      d == parts[3]
      yy == SubSeq(y, Len(y) - 1, Len(y))
  IN  APOD_PAGE_PREFIX \o yy \o m \o d \o HTML_EXT

\* A faulty variant of fetchApodApi: no try/catch around the request.
fetchApodApiNoCatch(resp) ==
  LET res == axiosGet(resp)
  IN  IF res = Thrown THEN Thrown
      ELSE IF res.status = 200 /\ Truthy(res.data)
        THEN [source |-> Str(SRC_APOD_API), raw |-> res.data]
        ELSE Null

\* fetchApodApi(date): { source, raw } or null; every throw is caught.
fetchApodApi(resp) ==
  LET res == axiosGet(resp)
  IN  IF res = Thrown THEN Null
      ELSE IF res.status = 200 /\ Truthy(res.data)
        THEN [source |-> Str(SRC_APOD_API), raw |-> res.data]
        ELSE Null

\* /image|apod|jpg|jpeg|png|gif|mov|mp4/i.test(href)
MEDIA_WORDS == {<<"i", "m", "a", "g", "e">>, <<"a", "p", "o", "d">>, <<"j", "p", "g">>,
                <<"j", "p", "e", "g">>, <<"p", "n", "g">>, <<"g", "i", "f">>,
                <<"m", "o", "v">>, <<"m", "p", "4">>}
LooksLikeMedia(href) == \E w \in MEDIA_WORDS : Contains(Lower(href), w)

\* /\.(jpg|jpeg|png|gif)$/i.test(href)
IMAGE_EXTS == {<<".", "j", "p", "g">>, <<".", "j", "p", "e", "g">>, <<".", "p", "n", "g">>,
               <<".", "g", "i", "f">>}
IsImageHref(href) == \E e \in IMAGE_EXTS : EndsWith(Lower(href), e)

\* new URL(src, base).href for the two shapes of src the pages here use: an
\* absolute http(s) URL stays, anything else is appended to the base.
HTTP_SCHEMES == {<<"h", "t", "t", "p", ":", "/", "/">>, <<"h", "t", "t", "p", "s", ":", "/", "/">>}
ResolveUrl(src, base) ==
  IF \E s \in HTTP_SCHEMES : StartsWith(src, s) THEN src ELSE base \o src

\* attr(name) of an element, '' for a missing attribute where the code says || ''.
AttrOrEmpty(v) == IF IsString(v) THEN v.str ELSE <<>>

\* .first() / .find(): the least of the indices that match; 0 if none does.
FirstIndex(hits) ==
  IF hits = {} THEN 0 ELSE CHOOSE i \in hits : \A j \in hits : i <= j

EXPLANATION_MAX == 2000

\* A faulty variant of scrapeApodPage: the first <img> is looked at before
\* the hyperlinks.
scrapeApodPageImgFirst(resp) ==
  LET res == axiosGet(resp)
  IN  IF res = Thrown THEN Null
      ELSE IF res.status # 200 \/ ~Truthy(res.data) THEN Null
      ELSE
        LET doc == res.data
            title == Or(Str(doc.title), Str(IF Len(doc.b) > 0 THEN doc.b[1] ELSE <<>>))
            HasMediaHref(h) == LooksLikeMedia(AttrOrEmpty(h))
            ai == FirstIndex({i \in 1..Len(doc.a) : HasMediaHref(doc.a[i])})
            fromA == IF ai # 0 /\ Truthy(doc.a[ai]) THEN doc.a[ai] ELSE Null
            fromImg == IF Len(doc.img) > 0 /\ Truthy(doc.img[1]) THEN doc.img[1] ELSE Null
            src == IF Truthy(fromImg) THEN fromImg ELSE fromA
        IN  IF ~Truthy(src) THEN Null
            ELSE [source |-> Str(SRC_APOD_SCRAPE),
                  raw |-> [url |-> Str(ResolveUrl(src.str, APOD_BASE)),
                           title |-> Or(title, Null),
                           explanation |-> Or(Str(Slice(doc.text, EXPLANATION_MAX)), Null)]]

\* scrapeApodPage(pageUrl), resp being what axios.get(pageUrl) comes back
\* with.  A document is its title text, the text of its <b> elements, the
\* href of each <a> and the src of each <img> in document order, and its body
\* text (trimmed, whitespace collapsed).
scrapeApodPage(resp) ==
  LET res == axiosGet(resp)
  IN  IF res = Thrown THEN Null
      ELSE IF res.status # 200 \/ ~Truthy(res.data) THEN Null
      ELSE
        LET doc == res.data
            title == Or(Str(doc.title), Str(IF Len(doc.b) > 0 THEN doc.b[1] ELSE <<>>))
            HasMediaHref(h) == LooksLikeMedia(AttrOrEmpty(h))
            ai == FirstIndex({i \in 1..Len(doc.a) : HasMediaHref(doc.a[i])})
            fromA == IF ai # 0 /\ Truthy(doc.a[ai]) THEN doc.a[ai] ELSE Null
            fromImg == IF Len(doc.img) > 0 /\ Truthy(doc.img[1]) THEN doc.img[1] ELSE Null
            src == IF Truthy(fromA) THEN fromA ELSE fromImg
        IN  IF ~Truthy(src) THEN Null
            ELSE [source |-> Str(SRC_APOD_SCRAPE),
                  raw |-> [url |-> Str(ResolveUrl(src.str, APOD_BASE)),
                           title |-> Or(title, Null),
                           explanation |-> Or(Str(Slice(doc.text, EXPLANATION_MAX)), Null)]]

\* A faulty variant of the snapshot discovery: the closest snapshot is taken
\* whether or not it is reported available.
waybackSnapshotUrlAnyClosest(resp) ==
  LET availRes == axiosGet(resp)
  IN  IF availRes = Thrown THEN Thrown
      ELSE IF availRes.status # 200 \/ ~Truthy(availRes.data) THEN Null
      ELSE
        LET snapshots == Get(availRes.data, "archived_snapshots")
        IN  IF ~Truthy(snapshots) \/ ~Truthy(Get(snapshots, "closest"))
              THEN Null
              ELSE [url |-> Get(snapshots.closest, "url")]

\* fetchWaybackAndScrape, first half: the snapshot URL to scrape, or null.
\* (Thrown marks the null of the catch block.)
waybackSnapshotUrl(resp) ==
  LET availRes == axiosGet(resp)
  IN  IF availRes = Thrown THEN Thrown
      ELSE IF availRes.status # 200 \/ ~Truthy(availRes.data) THEN Null
      ELSE
        LET snapshots == Get(availRes.data, "archived_snapshots")
        IN  IF ~Truthy(snapshots) \/ ~Truthy(Get(snapshots, "closest"))
               \/ ~Truthy(Get(snapshots.closest, "available"))
              THEN Null
              ELSE [url |-> Get(snapshots.closest, "url")]

Arr(s) == [arr |-> s]
IsArray(v) == DOMAIN v = {"arr"}

\* fetchImagesApiFallback(date): the for loop from item i on.  Thrown is a
\* TypeError raised in the loop (an item that is null, links that is no array).
RECURSIVE searchLoop(_, _, _)
searchLoop(items, i, date) ==
  IF i > Len(items) THEN Null
  ELSE
    LET item == items[i]
    IN  IF item \in {Null, Undefined} THEN Thrown
        ELSE IF ~Truthy(Get(item, "links")) THEN searchLoop(items, i + 1, date)
        ELSE IF ~IsArray(item.links) THEN Thrown
        ELSE IF Len(item.links.arr) = 0 THEN searchLoop(items, i + 1, date)
        ELSE
          LET IsImageLink(l) == Truthy(Get(l, "href")) /\ IsString(l.href)
                                /\ IsImageHref(l.href.str)
              li == FirstIndex({j \in 1..Len(item.links.arr) : IsImageLink(item.links.arr[j])})
          IN  IF li = 0 THEN searchLoop(items, i + 1, date)
              ELSE
                LET link == item.links.arr[li]
                    d0 == IF Truthy(Get(item, "data")) /\ Len(item.data.arr) > 0
                            THEN item.data.arr[1] ELSE Undefined
                    data == IF Truthy(d0) THEN d0 ELSE [empty |-> TRUE]
                IN  [date |-> Str(date),
                     title |-> Or(Get(data, "title"), Null),
                     explanation |-> Or(Get(data, "description"),
                                        Or(Get(data, "description_508"), Null)),
                     media_type |-> Str(IMAGE),
                     url |-> link.href,
                     source |-> Str(SRC_IMAGES_FALLBACK)]

\* A faulty variant of fetchImagesApiFallback: no try/catch around the body.
fetchImagesApiFallbackNoCatch(date, resp) ==
  LET res == axiosGet(resp)
  IN  IF res = Thrown THEN Thrown
      ELSE IF res.status # 200 \/ ~Truthy(res.data) \/ ~Truthy(Get(res.data, "collection"))
              \/ ~Truthy(Get(res.data.collection, "items"))
        THEN Null
      ELSE IF ~IsArray(res.data.collection.items) THEN Thrown
      ELSE searchLoop(res.data.collection.items.arr, 1, date)

\* A faulty variant of fetchImagesApiFallback: the items are scanned from the
\* last to the first.
fetchImagesApiFallbackBackwards(date, resp) ==
  LET res == axiosGet(resp)
  IN  IF res = Thrown THEN Null
      ELSE IF res.status # 200 \/ ~Truthy(res.data) \/ ~Truthy(Get(res.data, "collection"))
              \/ ~Truthy(Get(res.data.collection, "items"))
        THEN Null
      ELSE IF ~IsArray(res.data.collection.items) THEN Null
      ELSE
        LET items == res.data.collection.items.arr
            r == searchLoop([i \in 1..Len(items) |-> items[Len(items) + 1 - i]], 1, date)
        IN  IF r = Thrown THEN Null ELSE r

\* fetchImagesApiFallback(date), resp being what axios.get(url) comes back with;
\* every throw is caught.
fetchImagesApiFallback(date, resp) ==
  LET res == axiosGet(resp)
  IN  IF res = Thrown THEN Null
      ELSE IF res.status # 200 \/ ~Truthy(res.data) \/ ~Truthy(Get(res.data, "collection"))
              \/ ~Truthy(Get(res.data.collection, "items"))
        THEN Null
      ELSE IF ~IsArray(res.data.collection.items) THEN Null
      ELSE
        LET r == searchLoop(res.data.collection.items.arr, 1, date)
        IN  IF r = Thrown THEN Null ELSE r

\* -------------------------------------------- the /apod-proxy handler
\* A faulty variant of the pattern: /^\d{4}-\d{2}-\d{2}/, without the closing $.
DateRegexOpenEnd(s) ==
  /\ Len(s) >= 10
  /\ \A i \in {1, 2, 3, 4, 6, 7, 9, 10} : s[i] \in Digits
  /\ s[5] = "-" /\ s[8] = "-"

\* /^\d{4}-\d{2}-\d{2}$/.test(date)
DateRegex(s) ==
  /\ Len(s) = 10
  /\ \A i \in {1, 2, 3, 4, 6, 7, 9, 10} : s[i] \in Digits
  /\ s[5] = "-" /\ s[8] = "-"

\* server.js:189 and server.js:194: the two checks that answer 400.
dateMissing(q) == ~Truthy(q) \/ ~IsString(q)
dateMalformed(q) == ~DateRegex(q.str)

ERR_MISSING == [error |-> "Missing required date query parameter (YYYY-MM-DD)."]
ERR_FORMAT == [error |-> "Date must be in YYYY-MM-DD format."]
ERR_NOT_FOUND(q) == [error |-> "No APOD found for", date |-> q]

\* A faulty variant of the resolution key: the date left out.
apodCacheKeyShared(q) == KEY_APOD

\* `apod:${date}`
apodCacheKey(q) == KEY_APOD \o q.str

\* A faulty variant of the cache-hit response: { cached: true } alone.
cachedFlagAlone(cached) == [cached |-> JTrue]

\* { ...cached, cached: true }
withCachedFlag(cached) == ("cached" :> JTrue) @@ cached

\* A faulty variant of the test on the API result: hdurl required.
apiOkHdRequired(fromApi) ==
  Truthy(fromApi) /\ Truthy(Get(fromApi, "raw")) /\ Truthy(Get(fromApi.raw, "hdurl"))

\* A variant of the test on the API result that asks for raw.url alone.
apiOkUrlOnly(fromApi) ==
  Truthy(fromApi) /\ Truthy(Get(fromApi, "raw")) /\ Truthy(Get(fromApi.raw, "url"))

\* A faulty variant of the test on the scrape: scraped.url for scraped.raw.url.
scrapedOkTopLevelUrl(scraped) ==
  Truthy(scraped) /\ Truthy(Get(scraped, "raw")) /\ Truthy(Get(scraped, "url"))

\* server.js:205, 222, 237, 252: the test that a strategy succeeded.
apiOk(fromApi) ==
  /\ Truthy(fromApi) /\ Truthy(Get(fromApi, "raw"))
  /\ (Truthy(Get(fromApi.raw, "url")) \/ Truthy(Get(fromApi.raw, "hdurl")))
scrapedOk(scraped) ==
  Truthy(scraped) /\ Truthy(Get(scraped, "raw")) /\ Truthy(Get(scraped.raw, "url"))
waybackOk(wayback) ==
  Truthy(wayback) /\ Truthy(Get(wayback, "raw")) /\ Truthy(Get(wayback.raw, "url"))
imagesOk(imagesFallback) ==
  Truthy(imagesFallback) /\ Truthy(Get(imagesFallback, "url"))

\* A faulty variant of the API result: media_type always 'image'.
apiOutAlwaysImage(q, raw) ==
  [date |-> q,
   title |-> Or(Get(raw, "title"), Null),
   explanation |-> Or(Get(raw, "explanation"), Null),
   media_type |-> Str(IMAGE),
   url |-> Or(Get(raw, "url"), Or(Get(raw, "hdurl"), Null)),
   hdurl |-> Or(Get(raw, "hdurl"), Null),
   source |-> Str(SRC_APOD_API)]

\* A faulty variant of the API result: url without the fallback to hdurl.
apiOutUrlOnly(q, raw) ==
  [date |-> q,
   title |-> Or(Get(raw, "title"), Null),
   explanation |-> Or(Get(raw, "explanation"), Null),
   media_type |-> Or(Get(raw, "media_type"), Str(IMAGE)),
   url |-> Or(Get(raw, "url"), Null),
   hdurl |-> Or(Get(raw, "hdurl"), Null),
   source |-> Str(SRC_APOD_API)]

\* server.js:206-214, 223-230, 238-245: the normalized results.
apiOut(q, raw) ==
  [date |-> q,
   title |-> Or(Get(raw, "title"), Null),
   explanation |-> Or(Get(raw, "explanation"), Null),
   media_type |-> Or(Get(raw, "media_type"), Str(IMAGE)),
   url |-> Or(Get(raw, "url"), Or(Get(raw, "hdurl"), Null)),
   hdurl |-> Or(Get(raw, "hdurl"), Null),
   source |-> Str(SRC_APOD_API)]
scrapedOut(q, raw) ==
  [date |-> q,
   title |-> Or(Get(raw, "title"), Null),
   explanation |-> Or(Get(raw, "explanation"), Null),
   media_type |-> Str(IMAGE),
   url |-> raw.url,
   source |-> Str(SRC_APOD_SCRAPE)]
\* A faulty variant of the snapshot result: tagged as a page scrape.
waybackOutScrapeTag(q, raw) ==
  [date |-> q,
   title |-> Or(Get(raw, "title"), Null),
   explanation |-> Or(Get(raw, "explanation"), Null),
   media_type |-> Str(IMAGE),
   url |-> raw.url,
   source |-> Str(SRC_APOD_SCRAPE)]

waybackOut(q, raw) ==
  [date |-> q,
   title |-> Or(Get(raw, "title"), Null),
   explanation |-> Or(Get(raw, "explanation"), Null),
   media_type |-> Str(IMAGE),
   url |-> raw.url,
   source |-> Str(SRC_APOD_WAYBACK)]

\* ------------------------------------------------- inputs of the model
DateA == <<"2", "0", "2", "5", "-", "1", "0", "-", "0", "1">>
DateB == <<"1", "9", "9", "9", "-", "1", "2", "-", "3", "1">>
DateLetters == <<"2", "0", "2", "5", "-", "1", "0", "-", "0", "x">>
DateLong == <<"2", "0", "2", "5", "-", "1", "0", "-", "0", "1", "1">>
UrlImg == <<"https://x/img.jpg">>
UrlHd == <<"https://x/hd.jpg">>
UrlPage == <<"https://y/page">>
TitleNGC == <<"NGC 6960">>
TextExpl == <<"A nebula.">>
HrefArchive == <<"l", "i", "b", "/", "a", "b", "o", "u", "t", ".", "h", "t", "m", "l">>
HrefImage == <<"i", "m", "a", "g", "e", "/", "a", ".", "J", "P", "G">>
HrefAbs == <<"h", "t", "t", "p", "s", ":", "/", "/", "x", "/", "b", ".", "p", "n", "g">>
SrcImg == <<"p", "i", "c", ".", "g", "i", "f">>
SnapshotUrl == <<"http://web.archive.org/web/2025/ap.html">>
HrefThumb == <<"i", "/", "t", ".", "j", "p", "g">>
HrefJson == <<"i", "/", "m", ".", "j", "s", "o", "n">>
OtherText == <<"other">>

\* req.query.date: absent, repeated (an array), malformed, valid.
QueryDates ==
  {Undefined, Arr(<<Str(DateA), Str(DateB)>>), Str(DateLetters), Str(DateLong),
   Str(DateA), Str(DateB)}

\* Bodies of the APOD API.
ApiImage == [url |-> Str(UrlImg), title |-> Str(TitleNGC), media_type |-> Str(IMAGE)]
ApiHdOnly == [hdurl |-> Str(UrlHd), explanation |-> Str(TextExpl), media_type |-> Str(VIDEO)]
ApiEmptyUrl == [url |-> Str(<<>>), title |-> Str(TitleNGC), media_type |-> Str(IMAGE)]
ApiNoMedia == [code |-> Str(OtherText), title |-> Str(TitleNGC)]
ApiOther == [url |-> Str(UrlPage), title |-> Str(TitleNGC), media_type |-> Str(OtherText)]
ApiUntyped == [url |-> Str(UrlImg), title |-> Str(TitleNGC)]
ApiResponses ==
  {NetError, Http(500, Undefined), Http(200, Str(<<>>))}
  \cup {Http(200, d) : d \in {ApiImage, ApiHdOnly, ApiEmptyUrl, ApiNoMedia, ApiOther, ApiUntyped}}

\* Documents of apod.nasa.gov and of the archive.
DocLink == [title |-> TitleNGC, b |-> <<TextExpl>>,
            a |-> <<Undefined, Str(HrefArchive), Str(HrefImage), Str(HrefAbs)>>,
            img |-> <<Str(SrcImg)>>, text |-> TextExpl]
DocNoMedia == [title |-> TitleNGC, b |-> <<>>, a |-> <<Str(HrefArchive)>>,
               img |-> <<Undefined>>, text |-> TextExpl]
PageResponses ==
  {NetError, Http(404, DocLink), Http(200, Str(<<>>)), Http(200, DocLink), Http(200, DocNoMedia)}
\* axios.get rejects at once when the URL is no string.
PageResponsesFor(url) == IF IsString(url) /\ Truthy(url) THEN PageResponses ELSE {NetError}

\* Bodies of archive.org/wayback/available.
Closest(available, url) == [archived_snapshots |-> [closest |-> [available |-> available, url |-> url]]]
AvailResponses ==
  {NetError, Http(200, Str(<<>>)),
   Http(200, [url |-> Str(SnapshotUrl)]),
   Http(200, Closest(JTrue, Str(SnapshotUrl))),
   Http(200, Closest(JFalse, Str(SnapshotUrl))),
   Http(200, Closest(JTrue, Undefined))}

\* Bodies of images-api.nasa.gov/search.
ItemData == Arr(<<[title |-> Str(TitleNGC), description |-> Str(TextExpl)]>>)
ItemImage == [links |-> Arr(<<[href |-> Str(HrefJson)], [href |-> Str(HrefThumb)]>>), data |-> ItemData]
ItemJson == [links |-> Arr(<<[href |-> Str(HrefJson)]>>), data |-> ItemData]
ItemNoLinks == [data |-> ItemData]
ItemEmptyLinks == [links |-> Arr(<<>>), data |-> ItemData]
Collection(items) == [collection |-> [items |-> Arr(items)]]
SearchResponses ==
  {NetError, Http(200, [reason |-> Str(OtherText)]),
   Http(200, Collection(<<>>)),
   Http(200, Collection(<<ItemNoLinks, ItemEmptyLinks, ItemJson>>)),
   Http(200, Collection(<<ItemJson, ItemImage>>)),
   Http(200, Collection(<<Null, ItemImage>>))}

\* The strategies on every upstream answer, computed once.
ValidDates == {q \in QueryDates : ~dateMissing(q) /\ ~dateMalformed(q)}
fetchApodApiOn == [resp \in ApiResponses |-> fetchApodApi(resp)]
scrapeApodPageOn == [resp \in PageResponses |-> scrapeApodPage(resp)]
waybackSnapshotUrlOn == [resp \in AvailResponses |-> waybackSnapshotUrl(resp)]
fetchImagesApiFallbackOn ==
  [q \in ValidDates |-> [resp \in SearchResponses |-> fetchImagesApiFallback(q.str, resp)]]

\* ---------------------------------------------------------- the state
VARIABLES
  cache,      \* the Map `cache`: key -> { data, expires }
  now,        \* Date.now()
  ticks,      \* how often the clock has advanced
  started,    \* how many requests have arrived
  pc,         \* per request slot: the await the handler is suspended at, or "idle"
  date,       \* per request in flight: req.query.date
  inflight,   \* per request in flight: the outbound request it awaits
  calls,      \* per request in flight (history): the strategies invoked, in order
  outcomes,   \* per request in flight (history): per finished strategy, whether its
              \* upstream offered a media URL
  overlap,    \* per request in flight (history): another request was in flight during it
  last,       \* (history) the response the latest handler step sent, if it sent one,
              \* with the request's date, strategies and outcomes, and how the
              \* upstream answer that step resumed with was
  read,       \* (history) the cacheGet of the latest handler step, if it made one
  wrote,      \* (history, kept by HistorySpec) per key of /apod-proxy: the strategy
              \* and the upstream answer behind the latest cacheSet under it
  localStorage, \* the browser's localStorage of the page (the client): key -> string
  fetched,    \* what axios.get answers the strategy that runs on its own
  getImageBtn \* the page's fetch button: { disabled }

vars == <<cache, now, ticks, started, pc, date, inflight, calls, outcomes, overlap, last, read,
          wrote, localStorage, fetched, getImageBtn>>

Reqs == 1..MaxReqs
\* The clock moves a whole TTL at a time: an entry is read at the instant it was
\* written, at the instant it expires (now = expires) and after it.
TickSteps == {CACHE_TTL_MS}

NoCall == [to |-> "none", arg |-> Undefined]
NoLast == [date |-> Undefined, status |-> 0, body |-> Undefined, expires |-> 0,
           solo |-> FALSE, calls |-> <<>>, outcomes |-> <<>>, final |-> "none"]
NoRead == [key |-> <<>>, entry |-> Null, ret |-> Null, at |-> 0]

\* How an upstream answered, read off the answer itself: "fault" (a network
\* error or timeout, a status other than 200, an empty or broken body), "url"
\* (it offers a media URL), "nourl" (a proper answer without one).
Faulty(resp) == resp.error \/ resp.status # 200 \/ ~Truthy(resp.data)
ApiOutcome(resp) ==
  IF Faulty(resp) THEN "fault"
  ELSE IF Truthy(Get(resp.data, "url")) THEN "url" ELSE "nourl"
PageOutcome(resp) ==
  IF Faulty(resp) THEN "fault"
  ELSE IF \/ \E i \in 1..Len(resp.data.a) :
               IsString(resp.data.a[i]) /\ LooksLikeMedia(resp.data.a[i].str)
          \/ (Len(resp.data.img) > 0 /\ Truthy(resp.data.img[1]))
    THEN "url" ELSE "nourl"
SearchOutcome(resp) ==
  IF Faulty(resp) \/ ~Truthy(Get(resp.data, "collection")) THEN "fault"
  ELSE IF ~Truthy(Get(resp.data.collection, "items")) THEN "fault"
  ELSE LET items == resp.data.collection.items.arr
       IN  IF \E i \in 1..Len(items) : ~Truthy(items[i]) THEN "fault"
           ELSE IF \E i \in 1..Len(items) :
                     /\ Truthy(Get(items[i], "links"))
                     /\ \E j \in 1..Len(items[i].links.arr) :
                          IsImageHref(items[i].links.arr[j].href.str)
             THEN "url" ELSE "nourl"
ApiOutcomeOn == [resp \in ApiResponses |-> ApiOutcome(resp)]
PageOutcomeOn == [resp \in PageResponses |-> PageOutcome(resp)]
SearchOutcomeOn == [resp \in SearchResponses |-> SearchOutcome(resp)]

Init ==
  /\ cache = <<>>
  /\ now = 0
  /\ ticks = 0
  /\ started = 0
  /\ pc = [r \in Reqs |-> "idle"]
  /\ date = [r \in Reqs |-> Undefined]
  /\ inflight = [r \in Reqs |-> NoCall]
  /\ calls = [r \in Reqs |-> <<>>]
  /\ outcomes = [r \in Reqs |-> <<>>]
  /\ overlap = [r \in Reqs |-> FALSE]
  /\ last = NoLast
  /\ read = NoRead
  /\ wrote = <<>>
  /\ localStorage = <<>>
  /\ fetched = Undefined
  /\ getImageBtn = [disabled |-> FALSE]

InFlight(r) == pc[r] # "idle"

\* res.json(body) / res.status(status).json(body), after the cache became
\* newCache: the request is over.  A rejected handler promise sends nothing
\* (status 0, body Thrown).  expires is the expiry of the entry behind a 200.
Answer(r, q, status, body, expires, newCache, newCalls, final) ==
  /\ cache' = newCache
  /\ pc' = [pc EXCEPT ![r] = "idle"]
  /\ date' = [date EXCEPT ![r] = Undefined]
  /\ inflight' = [inflight EXCEPT ![r] = NoCall]
  /\ calls' = [calls EXCEPT ![r] = <<>>]
  /\ outcomes' = [outcomes EXCEPT ![r] = <<>>]
  /\ last' = [date |-> q, status |-> status, body |-> body, expires |-> expires,
              solo |-> ~overlap'[r], calls |-> newCalls,
              outcomes |-> IF final = "none" THEN <<>> ELSE Append(outcomes[r], final = "url"),
              final |-> final]
  /\ UNCHANGED <<localStorage, fetched, getImageBtn>>

\* The handler awaits the outbound request `to` for `arg`, suspended at p.
Await(r, q, p, to, arg, newCache, newCalls, newOutcomes) ==
  /\ cache' = newCache
  /\ pc' = [pc EXCEPT ![r] = p]
  /\ date' = [date EXCEPT ![r] = q]
  /\ inflight' = [inflight EXCEPT ![r] = [to |-> to, arg |-> arg]]
  /\ calls' = [calls EXCEPT ![r] = newCalls]
  /\ outcomes' = [outcomes EXCEPT ![r] = newOutcomes]
  /\ last' = NoLast
  /\ UNCHANGED <<localStorage, fetched, getImageBtn>>

\* A faulty variant of the fresh answer: the result stamped with the time of
\* its resolution.
AnswerFreshStamped(r, q, out, final) ==
  Answer(r, q, 200, ("fetched" :> now) @@ out, now + CACHE_TTL_MS,
         cacheSet(cache, apodCacheKey(q), ("fetched" :> now) @@ out, CACHE_TTL_MS, now),
         calls[r], final)

\* cacheSet(cacheKey, out); return res.json(out)
AnswerFresh(r, q, out, final) ==
  Answer(r, q, 200, out, now + CACHE_TTL_MS,
         cacheSet(cache, apodCacheKey(q), out, CACHE_TTL_MS, now), calls[r], final)

\* The handler's promise rejects.
Reject(r, q, final) == Answer(r, q, 0, Thrown, 0, cache, calls[r], final)

\* The upstream answers, numbered: the history of the writes names an answer
\* by its number.
RECURSIVE Enumerate(_)
Enumerate(S) ==
  IF S = {} THEN <<>>
  ELSE LET x == CHOOSE y \in S : TRUE IN <<x>> \o Enumerate(S \ {x})
Answers == Enumerate(ApiResponses \cup PageResponses \cup AvailResponses \cup SearchResponses)
NumberOf ==
  [resp \in {Answers[i] : i \in 1..Len(Answers)} |->
     CHOOSE i \in 1..Len(Answers) : Answers[i] = resp]

\* The history of the writes after a step of request r that resumed with
\* resp: a step that answers 200 has made a cacheSet under the key of its
\* date; `again` says that the entry it replaced came from the same strategy
\* and the same answer.
Written(r, resp) ==
  LET key == apodCacheKey(date[r])
      by == [by |-> pc[r], answer |-> NumberOf[resp]]
      Same(w) == w.by = by.by /\ w.answer = by.answer
  IN  IF last'.status = 200
        THEN (key :> [by |-> by.by, answer |-> by.answer,
                      again |-> key \in DOMAIN cache /\ Same(wrote[key])]) @@ wrote
        ELSE wrote

\* A request arrives: validation, the cache check, and on a miss the call of
\* fetchApodApi up to its await; server.js:187-204.
Request(r, q) ==
  /\ pc[r] = "idle"
  /\ \A s \in Reqs : s < r => pc[s] # "idle"
  /\ started < MaxCalls
  /\ started' = started + 1
  /\ overlap' = [s \in Reqs |-> IF s = r THEN \E o \in Reqs \ {r} : InFlight(o)
                                ELSE InFlight(s)]
  /\ UNCHANGED <<now, ticks, wrote>>
  /\ IF dateMissing(q) THEN
       /\ Answer(r, q, 400, ERR_MISSING, 0, cache, <<>>, "none")
       /\ read' = NoRead
     ELSE IF dateMalformed(q) THEN
       /\ Answer(r, q, 400, ERR_FORMAT, 0, cache, <<>>, "none")
       /\ read' = NoRead
     ELSE
       LET cacheKey == apodCacheKey(q)
           got == cacheGet(cache, cacheKey, now)
       IN  /\ read' = [key |-> cacheKey,
                       entry |-> IF cacheKey \in DOMAIN cache THEN cache[cacheKey] ELSE Null,
                       ret |-> got.ret, at |-> now]
           /\ IF Truthy(got.ret)
                THEN Answer(r, q, 200, withCachedFlag(got.ret),
                            IF cacheKey \in DOMAIN cache THEN cache[cacheKey].expires ELSE 0,
                            got.cache, <<>>, "none")
                ELSE Await(r, q, "api", "apod-api", q, got.cache, <<"api">>, <<>>)

\* A faulty variant of the API's return: the scrape is started whatever the
\* API answered.
ApiReturnThenScrape(r, resp) ==
  /\ pc[r] = "api"
  /\ UNCHANGED <<now, ticks, started, overlap>>
  /\ read' = NoRead
  /\ LET q == date[r]
         fromApi == fetchApodApiOn[resp]
         final == ApiOutcomeOn[resp]
         done == Append(outcomes[r], final = "url")
     IN  IF fromApi = Thrown THEN Reject(r, q, final)
         ELSE Await(r, q, "scrape", "page", Str(dateToApodPage(q.str)), cache,
                    Append(calls[r], "scrape"), done)

\* fetchApodApi resumes with the API's answer; server.js:204-221.
ApiReturn(r, resp) ==
  /\ pc[r] = "api"
  /\ UNCHANGED <<now, ticks, started, overlap>>
  /\ read' = NoRead
  /\ LET q == date[r]
         fromApi == fetchApodApiOn[resp]
         final == ApiOutcomeOn[resp]
         done == Append(outcomes[r], final = "url")
     IN  IF fromApi = Thrown THEN Reject(r, q, final)
         ELSE IF apiOk(fromApi) THEN AnswerFresh(r, q, apiOut(q, fromApi.raw), final)
         ELSE Await(r, q, "scrape", "page", Str(dateToApodPage(q.str)), cache,
                    Append(calls[r], "scrape"), done)

\* A faulty variant of the scrape's return: a failed scrape is tried again.
ScrapeReturnRetry(r, resp) ==
  /\ pc[r] = "scrape"
  /\ UNCHANGED <<now, ticks, started, overlap>>
  /\ read' = NoRead
  /\ LET q == date[r]
         scraped == scrapeApodPageOn[resp]
         final == PageOutcomeOn[resp]
         done == Append(outcomes[r], final = "url")
     IN  IF scraped = Thrown THEN Reject(r, q, final)
         ELSE IF scrapedOk(scraped)
           THEN AnswerFresh(r, q, scrapedOut(q, scraped.raw), final)
           ELSE Await(r, q, "scrape", "page", inflight[r].arg, cache,
                      Append(calls[r], "scrape"), done)

\* scrapeApodPage(apodPage) resumes with the page; server.js:221-236.
ScrapeReturn(r, resp) ==
  /\ pc[r] = "scrape"
  /\ UNCHANGED <<now, ticks, started, overlap>>
  /\ read' = NoRead
  /\ LET q == date[r]
         scraped == scrapeApodPageOn[resp]
         final == PageOutcomeOn[resp]
         done == Append(outcomes[r], final = "url")
     IN  IF scraped = Thrown THEN Reject(r, q, final)
         ELSE IF scrapedOk(scraped)
           THEN AnswerFresh(r, q, scrapedOut(q, scraped.raw), final)
           ELSE Await(r, q, "wayback_avail", "wayback-available", inflight[r].arg, cache,
                      Append(calls[r], "wayback"), done)

\* await fetchImagesApiFallback(date), up to its await; server.js:251, 159-162.
AwaitSearch(r, q, done) ==
  Await(r, q, "search", "images-search", Str(Split(q.str, "-")[1]), cache,
        Append(calls[r], "search"), done)

\* fetchWaybackAndScrape resumes with the availability answer; server.js:143-149.
\* Without a snapshot the strategy is over (null) and the search begins.
WaybackAvailReturn(r, resp) ==
  /\ pc[r] = "wayback_avail"
  /\ UNCHANGED <<now, ticks, started, overlap>>
  /\ read' = NoRead
  /\ LET q == date[r]
         snap == waybackSnapshotUrlOn[resp]
     IN  IF snap \in {Thrown, Null}
           THEN AwaitSearch(r, q, Append(outcomes[r], FALSE))
           ELSE Await(r, q, "wayback_page", "page", snap.url, cache, calls[r], outcomes[r])

\* scrapeApodPage(snapshotUrl) resumes with the snapshot; server.js:149, 236-250.
WaybackPageReturn(r, resp) ==
  /\ pc[r] = "wayback_page"
  /\ UNCHANGED <<now, ticks, started, overlap>>
  /\ read' = NoRead
  /\ LET q == date[r]
         wayback == scrapeApodPageOn[resp]
         final == PageOutcomeOn[resp]
         done == Append(outcomes[r], final = "url")
     IN  IF wayback = Thrown THEN Reject(r, q, final)
         ELSE IF waybackOk(wayback)
           THEN AnswerFresh(r, q, waybackOut(q, wayback.raw), final)
           ELSE AwaitSearch(r, q, done)

\* fetchImagesApiFallback resumes with the search answer; server.js:162-184, 251-257.
SearchReturn(r, resp) ==
  /\ pc[r] = "search"
  /\ UNCHANGED <<now, ticks, started, overlap>>
  /\ read' = NoRead
  /\ LET q == date[r]
         imagesFallback == fetchImagesApiFallbackOn[q][resp]
         final == SearchOutcomeOn[resp]
         done == Append(outcomes[r], final = "url")
     IN  IF imagesFallback = Thrown THEN Reject(r, q, final)
         ELSE IF imagesOk(imagesFallback)
           THEN AnswerFresh(r, q, imagesFallback, final)
           ELSE Answer(r, q, 404, ERR_NOT_FOUND(q), 0, cache, calls[r], final)

\* Time passes.
Tick(dt) ==
  /\ ticks < MaxTicks
  /\ ticks' = ticks + 1
  /\ now' = now + dt
  /\ UNCHANGED <<cache, started, pc, date, inflight, calls, outcomes, overlap, last, read, wrote,
               localStorage, fetched, getImageBtn>>

Next ==
  \/ \E r \in Reqs, q \in QueryDates : Request(r, q)
  \/ \E r \in Reqs, resp \in ApiResponses : ApiReturn(r, resp) /\ UNCHANGED wrote
  \/ \E r \in Reqs, resp \in PageResponses : ScrapeReturn(r, resp) /\ UNCHANGED wrote
  \/ \E r \in Reqs, resp \in AvailResponses : WaybackAvailReturn(r, resp) /\ UNCHANGED wrote
  \/ \E r \in Reqs : \E resp \in PageResponsesFor(inflight[r].arg) :
       WaybackPageReturn(r, resp) /\ UNCHANGED wrote
  \/ \E r \in Reqs, resp \in SearchResponses : SearchReturn(r, resp) /\ UNCHANGED wrote
  \/ \E dt \in TickSteps : Tick(dt)

Spec == Init /\ [][Next]_vars

\* The same steps with the history of the writes kept.
HistoryNext ==
  \/ \E r \in Reqs, q \in QueryDates : Request(r, q)
  \/ \E r \in Reqs, resp \in ApiResponses : ApiReturn(r, resp) /\ wrote' = Written(r, resp)
  \/ \E r \in Reqs, resp \in PageResponses : ScrapeReturn(r, resp) /\ wrote' = Written(r, resp)
  \/ \E r \in Reqs, resp \in AvailResponses :
       WaybackAvailReturn(r, resp) /\ wrote' = Written(r, resp)
  \/ \E r \in Reqs : \E resp \in PageResponsesFor(inflight[r].arg) :
       WaybackPageReturn(r, resp) /\ wrote' = Written(r, resp)
  \/ \E r \in Reqs, resp \in SearchResponses : SearchReturn(r, resp) /\ wrote' = Written(r, resp)
  \/ \E dt \in TickSteps : Tick(dt)

HistorySpec == Init /\ [][HistoryNext]_vars

\* ================================================================ claims
\* The vocabulary of the claims, stated without the handler's own tests.
WellFormedDates == {Str(DateA), Str(DateB)}
STRATEGY_ORDER == <<"api", "scrape", "wayback", "search">>
SOURCE_OF == [api |-> Str(SRC_APOD_API), scrape |-> Str(SRC_APOD_SCRAPE),
              wayback |-> Str(SRC_APOD_WAYBACK), search |-> Str(SRC_IMAGES_FALLBACK)]
IsPrefix(s, t) == Len(s) <= Len(t) /\ s = SubSeq(t, 1, Len(s))
NonEmptyString(v) == IsString(v) /\ v.str # <<>>
ResolutionKey(q) == <<"apod:">> \o q.str
Quiet == \A r \in Reqs : pc[r] = "idle"
\* The step is the arrival of a request, in slot ArrivalSlot, for ArrivalDate.
Arrival == started' # started
ArrivalSlot == CHOOSE r \in Reqs : pc[r] = "idle" /\ \A s \in Reqs : s < r => pc[s] # "idle"
ArrivalDate == IF last' # NoLast THEN last'.date ELSE date'[ArrivalSlot]
\* The step sends a response.
Responds == last' # NoLast /\ last' # last
WithoutCachedFlag(body) == [f \in DOMAIN body \ {"cached"} |-> body[f]]

\* C1: fallback order and short-circuit.  The strategies a call has invoked
\* are always an initial part of the order Primary API, Page Scrape,
\* Archived-Snapshot Scrape, Keyword Search (so each at most once and in
\* order); every strategy before the latest one has finished without a media
\* URL; a call that ends after a strategy that yielded a URL answers with that
\* strategy's result; and a call whose Primary API failed and whose Page
\* Scrape yielded a URL answers with the Page Scrape source after just these
\* two strategies.
C1_FallbackOrder ==
  /\ \A r \in Reqs :
       /\ IsPrefix(calls[r], STRATEGY_ORDER)
       /\ InFlight(r) => /\ date[r] \in WellFormedDates
                         /\ Len(calls[r]) = Len(outcomes[r]) + 1
                         /\ \A i \in 1..Len(outcomes[r]) : ~outcomes[r][i]
  /\ last # NoLast =>
       /\ IsPrefix(last.calls, STRATEGY_ORDER)
       /\ Len(last.outcomes) = Len(last.calls)
       /\ \A i \in 1..(Len(last.outcomes) - 1) : ~last.outcomes[i]
       /\ (last.calls # <<>> /\ last.outcomes[Len(last.outcomes)]) =>
            /\ last.status = 200
            /\ last.body.source = SOURCE_OF[last.calls[Len(last.calls)]]
       /\ (Len(last.outcomes) >= 2 /\ last.outcomes[2]) =>
            /\ last.calls = <<"api", "scrape">>
            /\ last.status = 200
            /\ last.body.source = Str(<<"apod-scrape">>)

\* The Primary API failed, the Page Scrape succeeded and the call answered.
C1_Witness ==
  /\ last.status = 200
  /\ last.calls = <<"api", "scrape">>
  /\ last.outcomes = <<FALSE, TRUE>>
  /\ last.body.source = Str(<<"apod-scrape">>)

\* C2: for a well-formed date every response is NotFound or a result whose
\* url is a non-empty string, fresh or served from the cache, and every cache
\* entry holds a result whose url is a non-empty string.
C2_UrlNeverEmpty ==
  /\ (last # NoLast /\ last.date \in WellFormedDates) =>
       \/ last.status = 404 /\ DOMAIN last.body = {"error", "date"}
       \/ last.status = 200 /\ NonEmptyString(Get(last.body, "url"))
  /\ \A k \in DOMAIN cache : NonEmptyString(Get(cache[k].data, "url"))

\* The API offered only hdurl: the result's url is the hdurl, and it is cached.
C2_Witness ==
  /\ last.status = 200
  /\ last.calls = <<"api">>
  /\ last.body.url = Str(UrlHd)
  /\ ResolutionKey(last.date) \in DOMAIN cache
  /\ cache[ResolutionKey(last.date)].data.url = Str(UrlHd)

\* C3: a request whose date is missing, is no string or does not match the
\* pattern is answered with a validation error (400) in the step it arrives,
\* with no cache read, no cache write and no strategy call.
C3_MalformedRejected ==
  [][(Arrival /\ ArrivalDate \notin WellFormedDates) =>
       /\ last'.status = 400
       /\ DOMAIN last'.body = {"error"}
       /\ last'.calls = <<>>
       /\ read' = NoRead
       /\ cache' = cache
       /\ pc' = pc /\ inflight' = inflight /\ calls' = calls]_vars

\* A malformed date was rejected while the cache held an entry.
C3_Witness ==
  /\ last.status = 400
  /\ last.date = Str(DateLong)
  /\ cache # <<>>

\* C4: cache hit.  A request that arrives for a well-formed date d while the
\* cache holds an entry under the key of d with now <= expires is answered in
\* that step with the stored result plus the cached flag, invokes no strategy
\* and leaves the cache alone; and no step removes an unexpired entry or
\* shortens its life, so from a write for d until its expiry every arriving
\* resolve(d) is such a hit.
C4_CacheHit ==
  [][/\ (/\ Arrival
         /\ ArrivalDate \in WellFormedDates
         /\ ResolutionKey(ArrivalDate) \in DOMAIN cache
         /\ now <= cache[ResolutionKey(ArrivalDate)].expires) =>
           /\ last'.status = 200
           /\ last'.body = [f \in DOMAIN cache[ResolutionKey(ArrivalDate)].data \cup {"cached"} |->
                              IF f = "cached" THEN JTrue
                              ELSE cache[ResolutionKey(ArrivalDate)].data[f]]
           /\ last'.calls = <<>>
           /\ cache' = cache
           /\ pc' = pc /\ inflight' = inflight /\ calls' = calls
     /\ \A k \in DOMAIN cache :
          now <= cache[k].expires =>
            k \in DOMAIN cache' /\ cache'[k].expires >= cache[k].expires]_vars

\* A request was served from the cache at the very instant its entry expires.
C4_Witness ==
  /\ last.status = 200
  /\ last.calls = <<>>
  /\ last.body.cached = JTrue
  /\ now = last.expires

\* C5 as stated: a resolve(d) for a well-formed d that arrives right after a
\* resolve(d) was answered, with no other call in between or in flight and
\* within the TTL, is a cache hit without upstream calls, and both results are
\* the same but for the cached flag.
C5_IdempotentAlways ==
  [][(/\ Arrival
      /\ Quiet /\ last # NoLast /\ last.solo
      /\ last.date \in WellFormedDates
      /\ ArrivalDate = last.date
      /\ last.status = 200 => now <= last.expires) =>
        /\ last'.status = 200
        /\ last'.calls = <<>>
        /\ last'.body.cached = JTrue
        /\ WithoutCachedFlag(last'.body) = WithoutCachedFlag(last.body)
        /\ inflight' = inflight]_vars

\* C5: if a resolve(d) returned a result and the next resolve(d) arrives with
\* no other call in between or in flight and no later than that entry's
\* expiry, the second call is a cache hit without upstream calls, and both
\* results are the same but for the cached flag.
C5_IdempotentAfterResult ==
  [][(/\ Arrival
      /\ Quiet /\ last # NoLast /\ last.solo
      /\ last.date \in WellFormedDates
      /\ ArrivalDate = last.date
      /\ last.status = 200
      /\ now <= last.expires) =>
        /\ last'.status = 200
        /\ last'.calls = <<>>
        /\ last'.body.cached = JTrue
        /\ WithoutCachedFlag(last'.body) = WithoutCachedFlag(last.body)
        /\ inflight' = inflight]_vars

\* Two calls for one date alone and in a row: the second served from the cache.
C5_Witness ==
  /\ started = 2
  /\ now = 0
  /\ last.status = 200
  /\ last.calls = <<>>
  /\ last.solo
  /\ last.body.cached = JTrue

\* C6: no negative caching.  A call for which all four strategies were invoked
\* and none yielded a URL is answered with NotFound (404 and an error body,
\* not a rejection) in a step that leaves the cache as it was, NotFound is
\* answered in no other case, and a resolve for the same date arriving next
\* after a NotFound of a call that ran alone starts again at the Primary API.
C6_NoNegativeCaching ==
  [][/\ (Responds /\ last'.calls = STRATEGY_ORDER /\ ~last'.outcomes[4]) =>
          /\ last'.status = 404
          /\ last'.body = [error |-> "No APOD found for", date |-> last'.date]
     /\ (Responds /\ last'.status = 404) =>
          /\ last'.calls = STRATEGY_ORDER
          /\ \A i \in 1..4 : ~last'.outcomes[i]
          /\ cache' = cache
     /\ (/\ Arrival
         /\ Quiet /\ last.status = 404 /\ last.solo
         /\ ArrivalDate = last.date) =>
          /\ last' = NoLast
          /\ pc'[ArrivalSlot] = "api"
          /\ calls'[ArrivalSlot] = <<"api">>
          /\ inflight'[ArrivalSlot] = [to |-> "apod-api", arg |-> last.date]]_vars

\* The second call in a row found nothing either, and nothing is cached.
C6_Witness ==
  /\ started = 2
  /\ last.status = 404
  /\ last.solo
  /\ last.calls = STRATEGY_ORDER
  /\ last.final = "nourl"
  /\ cache = <<>>

\* C7: a step that answers with a freshly resolved result (of any strategy)
\* has stored exactly that result under the key of the requested date with
\* expires = now + 24 hours, and has touched no other entry.
C7_StoredOnSuccess ==
  [][(Responds /\ last'.status = 200 /\ last'.calls # <<>>) =>
       /\ ResolutionKey(last'.date) \in DOMAIN cache'
       /\ cache'[ResolutionKey(last'.date)] =
            [data |-> last'.body, expires |-> now + 24 * 60 * 60 * 1000]
       /\ last'.body.date = last'.date
       /\ last'.body.source = SOURCE_OF[last'.calls[Len(last'.calls)]]
       /\ \A k \in DOMAIN cache \ {ResolutionKey(last'.date)} :
            k \in DOMAIN cache' /\ cache'[k] = cache[k]]_vars

\* The keyword search succeeded after the clock had moved; its result is stored.
C7_Witness ==
  /\ last.status = 200
  /\ last.calls = STRATEGY_ORDER
  /\ now > 0
  /\ ResolutionKey(last.date) \in DOMAIN cache
  /\ cache[ResolutionKey(last.date)] = [data |-> last.body, expires |-> now + 24 * 60 * 60 * 1000]

\* C8: no stale reads.  A cacheGet returns a value only from an entry whose
\* expiry is not before the time of the read, and then the entry's data; on an
\* absent key it returns null; on a present entry past its expiry it returns
\* null as well and the key is gone from the store.
C8_NoStaleReads ==
  read # NoRead =>
    /\ read.entry = Null => read.ret = Null /\ read.key \notin DOMAIN cache
    /\ (read.entry # Null /\ read.at > read.entry.expires) =>
         read.ret = Null /\ read.key \notin DOMAIN cache
    /\ read.ret # Null =>
         /\ read.entry # Null
         /\ read.at <= read.entry.expires
         /\ read.ret = read.entry.data

\* An expired entry was read: null came back and the entry is gone.
C8_Witness ==
  /\ read # NoRead
  /\ read.entry # Null
  /\ read.at > read.entry.expires
  /\ read.ret = Null
  /\ read.key \notin DOMAIN cache

\* C9: a resolve that finds the entry of its date past its TTL gets null from
\* the cache read, does not answer with the old result, and is in flight at
\* the Primary API, the first strategy.
C9_ExpiryReResolves ==
  (read # NoRead /\ read.entry # Null /\ read.at > read.entry.expires) =>
    /\ read.ret = Null
    /\ last = NoLast
    /\ \E r \in Reqs :
         /\ pc[r] = "api"
         /\ ResolutionKey(date[r]) = read.key
         /\ calls[r] = <<"api">>
         /\ inflight[r] = [to |-> "apod-api", arg |-> date[r]]

\* A call is at the Primary API again after reading its date's expired entry.
C9_Witness ==
  /\ read.entry # Null
  /\ read.at = read.entry.expires + 24 * 60 * 60 * 1000
  /\ \E r \in Reqs : pc[r] = "api" /\ calls[r] = <<"api">> /\ ResolutionKey(date[r]) = read.key

\* The upstream answers that are faults.
ApiFaults == {resp \in ApiResponses : ApiOutcome(resp) = "fault"}
PageFaults == {resp \in PageResponses : PageOutcome(resp) = "fault"}
AvailFaults == {resp \in AvailResponses : Faulty(resp)}
SearchFaults == {resp \in SearchResponses : SearchOutcome(resp) = "fault"}

\* C10: strategy failures are absorbed.  Every response is a populated result
\* (200 with a url), a validation error (400, for a date that is not well
\* formed) or NotFound (404); no step ends a request without one of these; and
\* a strategy step whose upstream answer is a fault (network error or timeout,
\* a status other than 200, an empty or malformed body) moves the call on to
\* the next strategy, or, after the last one, to NotFound.
C10_FailuresAbsorbed ==
  [][/\ last' # NoLast =>
          /\ last'.status \in {200, 400, 404}
          /\ last'.body # Thrown
          /\ last'.status = 200 => Truthy(Get(last'.body, "url"))
          /\ last'.status = 400 => DOMAIN last'.body = {"error"} /\ last'.date \notin WellFormedDates
          /\ last'.status = 404 => DOMAIN last'.body = {"error", "date"}
     /\ \A r \in Reqs :
          /\ InFlight(r) /\ ~InFlight(r)' => last' # NoLast
          /\ (pc[r] = "api" /\ pc'[r] # pc[r]) =>
               \/ (pc'[r] = "scrape" /\ last' = NoLast)
               \/ \A resp \in ApiFaults : ~ApiReturn(r, resp)
          /\ (pc[r] = "scrape" /\ pc'[r] # pc[r]) =>
               \/ (pc'[r] = "wayback_avail" /\ last' = NoLast)
               \/ \A resp \in PageFaults : ~ScrapeReturn(r, resp)
          /\ (pc[r] = "wayback_avail" /\ pc'[r] # pc[r]) =>
               \/ (pc'[r] = "search" /\ last' = NoLast)
               \/ \A resp \in AvailFaults : ~WaybackAvailReturn(r, resp)
          /\ (pc[r] = "wayback_page" /\ pc'[r] # pc[r]) =>
               \/ (pc'[r] = "search" /\ last' = NoLast)
               \/ \A resp \in PageFaults : ~WaybackPageReturn(r, resp)
          /\ (pc[r] = "search" /\ pc'[r] # pc[r]) =>
               \/ last'.status = 404
               \/ \A resp \in SearchFaults : ~SearchReturn(r, resp)]_vars

\* The keyword search, the last strategy, met a fault: NotFound was answered.
C10_Witness ==
  /\ last.status = 404
  /\ last.final = "fault"
  /\ last.calls = STRATEGY_ORDER

\* The API answers without a usable url field, and those of them that carry
\* no hdurl either.
ApiLacksUrl == {resp \in ApiResponses : ApiOutcome(resp) # "url"}
ApiLacksBoth ==
  {resp \in ApiLacksUrl : Faulty(resp) \/ ~Truthy(Get(resp.data, "hdurl"))}

\* C11 as stated: whenever the Primary API's answer lacks the url field,
\* whatever its other fields, the call moves on to the Page Scrape, and
\* nothing is answered or cached with the Primary API source.
C11_MissingUrlAlwaysFails ==
  [][\A r \in Reqs :
       (pc[r] = "api" /\ pc'[r] # pc[r]) =>
         \/ /\ pc'[r] = "scrape"
            /\ calls'[r] = <<"api", "scrape">>
            /\ last' = NoLast
            /\ cache' = cache
         \/ \A resp \in ApiLacksUrl : ~ApiReturn(r, resp)]_vars

\* C11: when the Primary API's answer has neither url nor hdurl (or is a
\* fault), the call moves on to the Page Scrape and nothing is answered or
\* cached; when it lacks url but carries an hdurl, the Primary API counts as
\* succeeded: the call answers 200 with the Primary API source and the hdurl
\* as both url and hdurl, and that result is cached.
C11_MissingUrlFailsUnlessHd ==
  [][\A r \in Reqs :
       (pc[r] = "api" /\ pc'[r] # pc[r]) =>
         /\ \/ /\ pc'[r] = "scrape"
               /\ calls'[r] = <<"api", "scrape">>
               /\ last' = NoLast
               /\ cache' = cache
            \/ \A resp \in ApiLacksBoth : ~ApiReturn(r, resp)
         /\ \A resp \in ApiLacksUrl \ ApiLacksBoth :
              ApiReturn(r, resp) =>
                /\ last'.status = 200
                /\ last'.calls = <<"api">>
                /\ last'.body.source = Str(<<"apod-api">>)
                /\ last'.body.url = resp.data.hdurl
                /\ last'.body.hdurl = resp.data.hdurl
                /\ cache'[ResolutionKey(date[r])].data = last'.body]_vars

\* An API answer without url but with hdurl ended the call at the first strategy.
C11_Witness ==
  /\ last.status = 200
  /\ last.calls = <<"api">>
  /\ last.final = "nourl"
  /\ last.body.hdurl = last.body.url

\* The source tags by strategy, as the responses spell them.
SOURCE_TAGS == [api |-> Str(<<"apod-api">>), scrape |-> Str(<<"apod-scrape">>),
                wayback |-> Str(<<"apod-wayback">>), search |-> Str(<<"images-api-fallback">>)]

\* C12: source-tag fidelity.  The four tags are pairwise distinct; a freshly
\* resolved result carries, in the response and in the cache, the tag of the
\* strategy the call ended with (apod-wayback after the snapshot scrape,
\* images-api-fallback after the keyword search); a response served from the
\* cache carries the tag of the stored entry; and an entry changes only by
\* such a fresh write under its own key.
C12_SourceTagFidelity ==
  [][/\ Cardinality({SOURCE_TAGS[s] : s \in DOMAIN SOURCE_TAGS}) = 4
     /\ (Responds /\ last'.status = 200 /\ last'.calls # <<>>) =>
          /\ last'.body.source = SOURCE_TAGS[last'.calls[Len(last'.calls)]]
          /\ cache'[ResolutionKey(last'.date)].data.source = last'.body.source
     /\ (Arrival /\ last'.status = 200) =>
          /\ last'.calls = <<>>
          /\ last'.body.source = cache[ResolutionKey(last'.date)].data.source
          /\ last'.body.source \in {SOURCE_TAGS[s] : s \in DOMAIN SOURCE_TAGS}
     /\ \A k \in DOMAIN cache' :
          (k \notin DOMAIN cache \/ cache'[k] # cache[k]) =>
            /\ Responds /\ last'.status = 200 /\ last'.calls # <<>>
            /\ k = ResolutionKey(last'.date)]_vars

\* A result of the snapshot scrape was served from the cache under its own tag.
C12_Witness ==
  /\ last.status = 200
  /\ last.calls = <<>>
  /\ last.body.cached = JTrue
  /\ last.body.source = Str(<<"apod-wayback">>)

\* C13 as stated: the media type of every result returned is "image" or
\* "video", whatever the Primary API put in its media_type field.
C13_MediaTypeImageOrVideo ==
  (last # NoLast /\ last.status = 200) =>
    last.body.media_type \in {Str(<<"image">>), Str(<<"video">>)}

\* C13: a result of the Primary API carries the API's media_type value as it
\* came ("image" and "video" included) and "image" when the API gave none; a
\* result of the Page Scrape, the Archived-Snapshot Scrape or the Keyword
\* Search has media type "image"; a response served from the cache has the
\* media type of the stored result.
C13_MediaTypePassedThrough ==
  [][/\ \A r \in Reqs :
          (pc[r] = "api" /\ pc'[r] # pc[r]) =>
            \A resp \in ApiResponses \ ApiLacksBoth :
              ApiReturn(r, resp) =>
                /\ last'.status = 200
                /\ last'.body.media_type =
                     IF "media_type" \in DOMAIN resp.data /\ resp.data.media_type # Str(<<>>)
                       THEN resp.data.media_type
                       ELSE Str(<<"image">>)
     /\ (Responds /\ last'.status = 200 /\ Len(last'.calls) >= 2) =>
          last'.body.media_type = Str(<<"image">>)
     /\ (Arrival /\ last'.status = 200) =>
          last'.body.media_type = cache[ResolutionKey(last'.date)].data.media_type]_vars

\* The API said "video", and the result says so.
C13_Witness ==
  /\ last.status = 200
  /\ last.calls = <<"api">>
  /\ last.body.media_type = Str(<<"video">>)

\* ======================================================= /resolve-asset
\* The asset resolver shares the Map `cache` (keys `asset:${nasaId}`) and the
\* clock with /apod-proxy.  A request slot holds the nasa_id where a date
\* request holds the date, and `calls` is <<"asset">> while the listing of
\* the id is awaited.
KEY_ASSET == <<"asset:">>
SRC_IMAGES_ASSET == <<"images-asset">>
MP4_EXT == <<".", "m", "p", "4">>
\* server.js:57 and server.js:64: the ttl handed to cacheSet.
ASSET_TTL_MS == 24 * 60 * 60 * 1000

ERR_MISSING_ID == [error |-> "Missing nasa_id query parameter"]
ERR_NO_ASSET == [error |-> "No asset found for that nasa_id"]
ERR_RESOLVE == [error |-> "Failed to resolve asset"]

\* A faulty variant of the id: the first parameter turned into a string.
nasaIdStringified(query) ==
  IF "nasa_id" \in DOMAIN query /\ query.nasa_id # Str(<<>>)
    THEN query.nasa_id ELSE Str(<<"undefined">>)

\* req.query.nasa_id || req.query.id || req.query.nasaId
nasaIdOf(query) == Or(Get(query, "nasa_id"), Or(Get(query, "id"), Get(query, "nasaId")))

\* `asset:${nasaId}`
assetCacheKey(nasaId) == KEY_ASSET \o nasaId.str

\* i.href && i.href.endsWith('.mp4'), and
\* i.href && i.href.match(/\.(jpg|jpeg|png|gif)$/i)
IsMp4Item(i) == Truthy(Get(i, "href")) /\ EndsWith(i.href.str, MP4_EXT)
IsImageItem(i) == Truthy(Get(i, "href")) /\ IsImageHref(i.href.str)

\* The listing makes the selection throw a TypeError: items is no array, an
\* item is null or undefined, an href is truthy but no string.
BreaksSelection(items) ==
  \/ ~IsArray(items)
  \/ \E i \in 1..Len(items.arr) :
       \/ items.arr[i] \in {Null, Undefined}
       \/ (Truthy(Get(items.arr[i], "href")) /\ ~IsString(items.arr[i].href))

\* Faulty variants of the selection: the first still image for the last; the
\* still images looked at before the mp4.
selectBestFirstImage(items) ==
  LET mp4 == FirstIndex({i \in 1..Len(items.arr) : IsMp4Item(items.arr[i])})
      images == SelectSeq(items.arr, IsImageItem)
  IN  IF mp4 # 0
        THEN [best |-> items.arr[mp4].href, items |-> items, type |-> Str(VIDEO),
              source |-> Str(SRC_IMAGES_ASSET)]
        ELSE [best |-> IF Len(images) > 0 THEN Or(images[1].href, Null) ELSE Null,
              items |-> items, type |-> Str(IMAGE), source |-> Str(SRC_IMAGES_ASSET)]
selectBestImagesFirst(items) ==
  LET mp4 == FirstIndex({i \in 1..Len(items.arr) : IsMp4Item(items.arr[i])})
      images == SelectSeq(items.arr, IsImageItem)
  IN  IF Len(images) > 0
        THEN [best |-> Or(images[Len(images)].href, Null),
              items |-> items, type |-> Str(IMAGE), source |-> Str(SRC_IMAGES_ASSET)]
        ELSE IF mp4 # 0
          THEN [best |-> items.arr[mp4].href, items |-> items, type |-> Str(VIDEO),
                source |-> Str(SRC_IMAGES_ASSET)]
          ELSE [best |-> Null, items |-> items, type |-> Str(IMAGE),
                source |-> Str(SRC_IMAGES_ASSET)]

\* server.js:54-65: the result `out` for a listing the selection does not
\* throw on.
selectBest(items) ==
  LET mp4 == FirstIndex({i \in 1..Len(items.arr) : IsMp4Item(items.arr[i])})
      images == SelectSeq(items.arr, IsImageItem)
  IN  IF mp4 # 0
        THEN [best |-> items.arr[mp4].href, items |-> items, type |-> Str(VIDEO),
              source |-> Str(SRC_IMAGES_ASSET)]
        ELSE [best |-> IF Len(images) > 0 THEN Or(images[Len(images)].href, Null) ELSE Null,
              items |-> items, type |-> Str(IMAGE), source |-> Str(SRC_IMAGES_ASSET)]

\* Faulty variants of resolveAssetByNasaId: a listing without a best link
\* returned as null; a listing without a best link not handed to cacheSet.
resolveAssetNullBestNotFound(resp) ==
  LET res == axiosGet(resp)
  IN  IF res = Thrown THEN [out |-> Null, stored |-> FALSE]
      ELSE IF res.status # 200 \/ ~Truthy(res.data) \/ ~Truthy(Get(res.data, "collection"))
        THEN [out |-> Null, stored |-> FALSE]
      ELSE
        LET items == Or(Get(res.data.collection, "items"), Arr(<<>>))
        IN  IF BreaksSelection(items) \/ selectBest(items).best = Null
              THEN [out |-> Null, stored |-> FALSE]
              ELSE [out |-> selectBest(items), stored |-> TRUE]
resolveAssetNullBestNotStored(resp) ==
  LET res == axiosGet(resp)
  IN  IF res = Thrown THEN [out |-> Null, stored |-> FALSE]
      ELSE IF res.status # 200 \/ ~Truthy(res.data) \/ ~Truthy(Get(res.data, "collection"))
        THEN [out |-> Null, stored |-> FALSE]
      ELSE
        LET items == Or(Get(res.data.collection, "items"), Arr(<<>>))
        IN  IF BreaksSelection(items) THEN [out |-> Null, stored |-> FALSE]
            ELSE [out |-> selectBest(items), stored |-> selectBest(items).best # Null]

\* A faulty variant of resolveAssetByNasaId: the null of a failed listing
\* request is handed to cacheSet as well.
resolveAssetFailureStored(resp) ==
  LET res == axiosGet(resp)
  IN  IF res = Thrown THEN [out |-> Null, stored |-> TRUE]
      ELSE IF res.status # 200 \/ ~Truthy(res.data) \/ ~Truthy(Get(res.data, "collection"))
        THEN [out |-> Null, stored |-> TRUE]
      ELSE
        LET items == Or(Get(res.data.collection, "items"), Arr(<<>>))
        IN  IF BreaksSelection(items) THEN [out |-> Null, stored |-> FALSE]
            ELSE [out |-> selectBest(items), stored |-> TRUE]

\* resolveAssetByNasaId after its await, resp being what axios.get comes back
\* with: the value returned (null on every failure, every throw caught) and
\* whether it was handed to cacheSet.
resolveAssetByNasaId(resp) ==
  LET res == axiosGet(resp)
  IN  IF res = Thrown THEN [out |-> Null, stored |-> FALSE]
      ELSE IF res.status # 200 \/ ~Truthy(res.data) \/ ~Truthy(Get(res.data, "collection"))
        THEN [out |-> Null, stored |-> FALSE]
      ELSE
        LET items == Or(Get(res.data.collection, "items"), Arr(<<>>))
        IN  IF BreaksSelection(items) THEN [out |-> Null, stored |-> FALSE]
            ELSE [out |-> selectBest(items), stored |-> TRUE]

\* --------------------------------------- inputs of the asset resolver
IdA == <<"PIA00001">>
IdB == <<"apollo-11">>
HrefMp4 == <<"a", "~", "o", ".", "m", "p", "4">>
HrefMp4Small == <<"a", "~", "s", ".", "m", "p", "4">>
HrefSmall == <<"a", "~", "s", ".", "j", "p", "g">>
HrefMedium == <<"a", "~", "m", ".", "P", "N", "G">>
HrefLarge == <<"a", "~", "l", ".", "g", "i", "f">>
HrefSrt == <<"a", ".", "s", "r", "t">>

\* req.query: no id parameter, an empty one, and the three names of the id.
AssetQueries ==
  {[q |-> Str(OtherText)], [nasa_id |-> Str(<<>>)], [nasa_id |-> Str(IdA)], [id |-> Str(IdB)],
   [nasa_id |-> Str(<<>>), nasaId |-> Str(IdA)]}

\* Listings of images-api.nasa.gov/asset/<id>.
Link(href) == [href |-> Str(href)]
Listings ==
  {<<Link(HrefSmall), Link(HrefMp4), Link(HrefLarge)>>,
   <<Link(HrefMp4), Link(HrefMp4Small), Link(HrefJson), Link(HrefSmall)>>,
   <<Link(HrefSmall), Link(HrefMedium), Link(HrefMp4)>>,
   <<Link(HrefSmall), Link(HrefMedium), Link(HrefLarge)>>,
   <<Link(HrefLarge), Link(HrefJson), Link(HrefMedium), Link(HrefSrt)>>,
   <<Link(HrefJson), [rel |-> Str(OtherText)], Link(HrefSrt)>>,
   <<>>}
AssetResponses ==
  {NetError, Http(404, Undefined), Http(200, [reason |-> Str(OtherText)]),
   Http(200, [collection |-> [version |-> Str(OtherText)]]),
   Http(200, Collection(<<Null, Link(HrefMp4)>>))}
  \cup {Http(200, Collection(l)) : l \in Listings}

resolveAssetByNasaIdOn == [resp \in AssetResponses |-> resolveAssetByNasaId(resp)]

\* How the listing answered: "fault" (nothing could be selected from),
\* "url" (a best link), "nourl" (a listing without one).
AssetOutcome(resp) ==
  IF resolveAssetByNasaIdOn[resp].out = Null THEN "fault"
  ELSE IF resolveAssetByNasaIdOn[resp].out.best = Null THEN "nourl" ELSE "url"

\* ------------------------------------------------ the handler's steps
\* A request arrives: the id check, and resolveAssetByNasaId up to its
\* await or its return from the cache; server.js:261-267, 42-50.
AssetRequest(r, query) ==
  /\ pc[r] = "idle"
  /\ \A s \in Reqs : s < r => pc[s] # "idle"
  /\ started < MaxCalls
  /\ started' = started + 1
  /\ overlap' = [s \in Reqs |-> IF s = r THEN \E o \in Reqs \ {r} : InFlight(o)
                                ELSE InFlight(s)]
  /\ UNCHANGED <<now, ticks, wrote>>
  /\ LET nasaId == nasaIdOf(query)
     IN  IF ~Truthy(nasaId) THEN
           /\ Answer(r, nasaId, 400, ERR_MISSING_ID, 0, cache, <<>>, "none")
           /\ read' = NoRead
         ELSE
           LET cacheKey == assetCacheKey(nasaId)
               got == cacheGet(cache, cacheKey, now)
           IN  /\ read' = [key |-> cacheKey,
                           entry |-> IF cacheKey \in DOMAIN cache THEN cache[cacheKey] ELSE Null,
                           ret |-> got.ret, at |-> now]
               /\ IF Truthy(got.ret)
                    THEN Answer(r, nasaId, 200, got.ret,
                                IF cacheKey \in DOMAIN cache THEN cache[cacheKey].expires ELSE 0,
                                got.cache, <<>>, "none")
                    ELSE Await(r, nasaId, "asset", "images-asset", nasaId, got.cache,
                               <<"asset">>, <<>>)

\* resolveAssetByNasaId resumes with the listing, and the handler with what
\* it returns; server.js:50-68, 266-270.
AssetReturn(r, resp) ==
  /\ pc[r] = "asset"
  /\ UNCHANGED <<now, ticks, started, overlap, wrote>>
  /\ read' = NoRead
  /\ LET nasaId == date[r]
         got == resolveAssetByNasaIdOn[resp]
         resolved == got.out
         stored == IF got.stored
                     THEN cacheSet(cache, assetCacheKey(nasaId), resolved, ASSET_TTL_MS, now)
                     ELSE cache
         final == AssetOutcome(resp)
     IN  IF resolved = Thrown
           THEN Answer(r, nasaId, 500, ERR_RESOLVE, 0, stored, calls[r], final)
         ELSE IF ~Truthy(resolved)
           THEN Answer(r, nasaId, 404, ERR_NO_ASSET, 0, stored, calls[r], final)
           ELSE Answer(r, nasaId, 200, resolved,
                       IF got.stored THEN now + ASSET_TTL_MS ELSE 0, stored, calls[r], final)

AssetNext ==
  \/ \E r \in Reqs, query \in AssetQueries : AssetRequest(r, query)
  \/ \E r \in Reqs, resp \in AssetResponses : AssetReturn(r, resp)
  \/ \E dt \in TickSteps : Tick(dt)

AssetSpec == Init /\ [][AssetNext]_vars

\* ------------------------------------------ claims on the asset resolver
\* The links by kind, spelled out.
MotionLinks == {Str(HrefMp4), Str(HrefMp4Small)}
StillLinks == {Str(HrefSmall), Str(HrefMedium), Str(HrefLarge)}
LinksOf(l, kind) == {i \in 1..Len(l) : "href" \in DOMAIN l[i] /\ l[i].href \in kind}
Least(S) == CHOOSE i \in S : \A j \in S : i <= j
Greatest(S) == CHOOSE i \in S : \A j \in S : i >= j
Listed(l) == Http(200, [collection |-> [items |-> [arr |-> l]]])

\* C14: for every listing with a motion-media (.mp4) link and any number of
\* still-image links, in any order, the resolver answers 200 with type
\* "video" and best the motion-media link (the first one, if there are more).
C14_VideoPreferred ==
  [][\A r \in Reqs :
       pc[r] = "asset" =>
         \A l \in {m \in Listings : LinksOf(m, MotionLinks) # {}} :
           AssetReturn(r, Listed(l)) =>
             /\ last'.status = 200
             /\ last'.body.type = Str(<<"video">>)
             /\ last'.body.best = l[Least(LinksOf(l, MotionLinks))].href]_vars

\* A motion link listed between two still images was picked.
C14_Witness ==
  /\ last.status = 200
  /\ last.calls = <<"asset">>
  /\ last.body.type = Str(<<"video">>)
  /\ last.body.best = Str(HrefMp4)
  /\ last.body.items.arr[1].href = Str(HrefSmall)
  /\ last.body.items.arr[3].href = Str(HrefLarge)

\* C15: for every listing without a motion-media link and with at least one
\* still-image link, the resolver answers 200 with type "image" and best the
\* last still-image link in the listing's order.
C15_LastImage ==
  [][\A r \in Reqs :
       pc[r] = "asset" =>
         \A l \in {m \in Listings : LinksOf(m, MotionLinks) = {} /\ LinksOf(m, StillLinks) # {}} :
           AssetReturn(r, Listed(l)) =>
             /\ last'.status = 200
             /\ last'.body.type = Str(<<"image">>)
             /\ last'.body.best = l[Greatest(LinksOf(l, StillLinks))].href]_vars

\* Of three still images the third was picked.
C15_Witness ==
  /\ last.status = 200
  /\ last.calls = <<"asset">>
  /\ last.body.type = Str(<<"image">>)
  /\ Len(last.body.items.arr) = 3
  /\ \A i \in 1..3 : last.body.items.arr[i].href \in StillLinks
  /\ last.body.best = last.body.items.arr[3].href

\* C16: for every listing fetched with neither a motion-media nor a
\* still-image link, the empty listing and a collection without items
\* included, the resolver answers 200, not 404, with best null and items the
\* whole listing in its order.
C16_NullBest ==
  [][\A r \in Reqs :
       pc[r] = "asset" =>
         /\ \A l \in {m \in Listings : LinksOf(m, MotionLinks) = {} /\ LinksOf(m, StillLinks) = {}} :
              AssetReturn(r, Listed(l)) =>
                /\ last'.status = 200
                /\ last'.body.best = Null
                /\ last'.body.items = [arr |-> l]
         /\ AssetReturn(r, Http(200, [collection |-> [version |-> Str(OtherText)]])) =>
              /\ last'.status = 200
              /\ last'.body.best = Null
              /\ last'.body.items = [arr |-> <<>>]]_vars

\* A listing of three links, none of them media, came back whole with best null.
C16_Witness ==
  /\ last.status = 200
  /\ last.calls = <<"asset">>
  /\ last.body.best = Null
  /\ Len(last.body.items.arr) = 3

AssetIds == {Str(IdA), Str(IdB)}
AssetKey(id) == <<"asset:">> \o id.str

\* C17: asset caching.  A request with an id reads the cache under asset:<id>
\* in the step it arrives, before any listing is asked for; every result
\* answered from a fetched listing (video, image or best null) has been stored
\* under that key with expires = now + 24 hours; a request arriving while the
\* entry of its id is unexpired is answered with the stored result, asks for
\* no listing and leaves the cache alone; and no step removes an unexpired
\* entry or shortens its life.
C17_AssetCaching ==
  [][/\ (Arrival /\ ArrivalDate \in AssetIds) =>
          /\ read'.key = AssetKey(ArrivalDate)
          /\ read'.at = now
     /\ (Responds /\ last'.status = 200 /\ last'.calls = <<"asset">>) =>
          /\ AssetKey(last'.date) \in DOMAIN cache'
          /\ cache'[AssetKey(last'.date)] =
               [data |-> last'.body, expires |-> now + 24 * 60 * 60 * 1000]
     /\ (/\ Arrival
         /\ ArrivalDate \in AssetIds
         /\ AssetKey(ArrivalDate) \in DOMAIN cache
         /\ now <= cache[AssetKey(ArrivalDate)].expires) =>
          /\ last'.status = 200
          /\ last'.body = cache[AssetKey(ArrivalDate)].data
          /\ last'.calls = <<>>
          /\ cache' = cache
          /\ pc' = pc /\ inflight' = inflight
     /\ \A k \in DOMAIN cache :
          now <= cache[k].expires =>
            k \in DOMAIN cache' /\ cache'[k].expires >= cache[k].expires]_vars

\* A result with best null was served from the cache at the instant it expires.
C17_Witness ==
  /\ last.status = 200
  /\ last.calls = <<>>
  /\ last.date \in AssetIds
  /\ last.body.best = Null
  /\ now = last.expires

\* The queries without a usable id: none of nasa_id, id, nasaId, or empty ones.
IdlessQueries ==
  {query \in AssetQueries :
     \A f \in {"nasa_id", "id", "nasaId"} : f \notin DOMAIN query \/ query[f] = Str(<<>>)}

\* C18: a request without an id, or with an empty one, is answered with a
\* validation error (400) in the step it arrives, with no cache read, no
\* cache write and no listing asked for.
C18_MissingIdRejected ==
  [][\A r \in Reqs :
       pc[r] = "idle" =>
         \A query \in IdlessQueries :
           AssetRequest(r, query) =>
             /\ last'.status = 400
             /\ DOMAIN last'.body = {"error"}
             /\ last'.calls = <<>>
             /\ read' = NoRead
             /\ cache' = cache
             /\ pc' = pc /\ inflight' = inflight /\ calls' = calls]_vars

\* A request without an id was rejected while the cache held an asset.
C18_Witness ==
  /\ last.status = 400
  /\ last.body = [error |-> "Missing nasa_id query parameter"]
  /\ cache # <<>>

\* ------------------------------------- further claims on /apod-proxy
\* The example's date, API body and result.
ExampleDate == Str(<<"2", "0", "2", "5", "-", "1", "0", "-", "0", "1">>)
ExampleApiBody ==
  [url |-> Str(<<"https://x/img.jpg">>), title |-> Str(<<"NGC 6960">>),
   media_type |-> Str(<<"image">>)]
ExampleResult ==
  [date |-> ExampleDate, title |-> Str(<<"NGC 6960">>), explanation |-> Null,
   media_type |-> Str(<<"image">>), url |-> Str(<<"https://x/img.jpg">>), hdurl |-> Null,
   source |-> Str(<<"apod-api">>)]

\* C19: the end-to-end example.  A request for 2025-10-01 arriving at an
\* empty cache goes to the Primary API, and when the API answers
\* {url: "https://x/img.jpg", title: "NGC 6960", media_type: "image"} the call
\* answers 200 with that date, title, media type, url and the Primary API
\* source (explanation and hdurl null), having invoked no other strategy.
C19_EndToEndExample ==
  [][/\ (Arrival /\ cache = <<>> /\ ArrivalDate = ExampleDate) =>
          /\ last' = NoLast
          /\ pc'[ArrivalSlot] = "api"
          /\ calls'[ArrivalSlot] = <<"api">>
     /\ \A r \in Reqs :
          (pc[r] = "api" /\ pc'[r] # pc[r] /\ date[r] = ExampleDate) =>
            (ApiReturn(r, Http(200, ExampleApiBody)) =>
               /\ last'.status = 200
               /\ last'.body = ExampleResult
               /\ last'.calls = <<"api">>
               /\ pc'[r] = "idle")]_vars

\* The example has run: one request, its result answered and cached.
C19_Witness ==
  /\ started = 1
  /\ last.status = 200
  /\ last.body = ExampleResult
  /\ last.calls = <<"api">>
  /\ DOMAIN cache = {ResolutionKey(ExampleDate)}

\* C20: concurrent resolution of one date.  A request arriving while its date
\* has no unexpired entry goes to the Primary API whether or not another call
\* for that date is in flight; only the arrival step reads the cache; a call
\* in flight while the cache holds an entry for its date goes on with its own
\* chain, and when it succeeds its own result replaces that entry (the last
\* write is what the cache holds), and when it ends in NotFound the entry stays.
C20_ConcurrentSameDate ==
  [][/\ (/\ Arrival
         /\ ArrivalDate \in WellFormedDates
         /\ \/ ResolutionKey(ArrivalDate) \notin DOMAIN cache
            \/ now > cache[ResolutionKey(ArrivalDate)].expires) =>
          /\ last' = NoLast
          /\ pc'[ArrivalSlot] = "api"
          /\ calls'[ArrivalSlot] = <<"api">>
     /\ ~Arrival => read' \in {NoRead, read}
     /\ \A r \in Reqs :
          (/\ InFlight(r)
           /\ pc'[r] # pc[r]
           /\ ResolutionKey(date[r]) \in DOMAIN cache) =>
            \/ /\ InFlight(r)'
               /\ IsPrefix(calls[r], calls'[r])
               /\ last' = NoLast
               /\ cache' = cache
            \/ /\ last'.status = 200
               /\ last'.calls = calls[r]
               /\ "cached" \notin DOMAIN last'.body
               /\ cache'[ResolutionKey(date[r])] =
                    [data |-> last'.body, expires |-> now + 24 * 60 * 60 * 1000]
            \/ /\ last'.status = 404
               /\ last'.calls = calls[r]
               /\ cache' = cache]_vars

\* Two calls for one date overlap: one has just answered and written its
\* result, the other, which saw a miss, is at its last strategy.
C20_Witness ==
  /\ ticks = 0
  /\ last.status = 200
  /\ last.calls # <<>>
  /\ ~last.solo
  /\ \E r \in Reqs :
       /\ pc[r] = "search"
       /\ date[r] = last.date
       /\ cache[ResolutionKey(date[r])].data = last.body

\* The step is a fresh write of a resolve call under key k, which held an entry.
Rewrites(k) ==
  /\ Responds /\ last'.status = 200 /\ last'.calls # <<>>
  /\ k = ResolutionKey(last'.date)
  /\ k \in DOMAIN cache

\* C21 as stated: whenever a resolve call writes under a key that an earlier
\* resolve call for the same date has written, the value written has the same
\* url and the same source as the one it replaces, whatever the upstream
\* services answered.
C21_SameKeyWritesIdentical ==
  [][\A k \in DOMAIN cache' :
       Rewrites(k) =>
         /\ cache'[k].data.url = cache[k].data.url
         /\ cache'[k].data.source = cache[k].data.source]_vars

\* C21: whenever a resolve call writes under a key that an earlier resolve
\* call for the same date has written, the cache then holds the value of this
\* later write, and that value is identical to the one it replaces if both
\* calls ended at the same strategy on the same upstream answer.
C21_SameAnswerSameValue ==
  [][\A k \in DOMAIN cache' :
       Rewrites(k) =>
         /\ cache'[k].data = last'.body
         /\ (wrote'[k].by = wrote[k].by /\ wrote'[k].answer = wrote[k].answer) =>
              cache'[k].data = cache[k].data]_vars

\* Of two overlapping calls for one date the second to write has written, at
\* a later time, over the entry of the first, from the same strategy and answer.
C21_Witness ==
  /\ started = 2
  /\ last.status = 200
  /\ last.calls # <<>>
  /\ ~last.solo
  /\ wrote[ResolutionKey(last.date)].again
  /\ cache[ResolutionKey(last.date)].data = last.body
  /\ now > 0
  /\ cache[ResolutionKey(last.date)].expires = now + 24 * 60 * 60 * 1000

\* ------------------------------------- both endpoints on the one cache
\* Requests of both kinds share the slots, the clock and the Map.  Each
\* upstream answers with a failure or with one good body.
MixedDates == {Str(DateA), Str(DateB)}
MixedQueries == {[nasa_id |-> Str(IdA)], [id |-> Str(IdB)]}
MixedApi == {NetError, Http(200, ApiImage)}
MixedPages == {NetError, Http(200, DocLink)}
MixedAvail == {NetError, Http(200, Closest(JTrue, Str(SnapshotUrl)))}
MixedSearch == {NetError, Http(200, Collection(<<ItemJson, ItemImage>>))}
MixedAssets == {NetError, Http(200, Collection(<<Link(HrefSmall), Link(HrefMp4), Link(HrefLarge)>>))}

MixedNext ==
  \/ \E r \in Reqs, q \in MixedDates : Request(r, q)
  \/ \E r \in Reqs, resp \in MixedApi : ApiReturn(r, resp) /\ UNCHANGED wrote
  \/ \E r \in Reqs, resp \in MixedPages : ScrapeReturn(r, resp) /\ UNCHANGED wrote
  \/ \E r \in Reqs, resp \in MixedAvail : WaybackAvailReturn(r, resp) /\ UNCHANGED wrote
  \/ \E r \in Reqs, resp \in MixedPages : WaybackPageReturn(r, resp) /\ UNCHANGED wrote
  \/ \E r \in Reqs, resp \in MixedSearch : SearchReturn(r, resp) /\ UNCHANGED wrote
  \/ \E r \in Reqs, query \in MixedQueries : AssetRequest(r, query)
  \/ \E r \in Reqs, resp \in MixedAssets : AssetReturn(r, resp)
  \/ \E dt \in TickSteps : Tick(dt)

MixedSpec == Init /\ [][MixedNext]_vars

\* The key of a call, by what it asks for: a date or an asset id.
KeyOf(x) == IF x \in WellFormedDates THEN ResolutionKey(x) ELSE AssetKey(x)
\* The slot of the call that takes the step, and what that call asks for.
Acts(r) == (Arrival /\ r = ArrivalSlot) \/ pc'[r] # pc[r]
Asked(r) == IF Arrival THEN ArrivalDate ELSE date[r]

\* C22: key independence.  No resolution key is an asset key, and an entry
\* under a resolution key is a resolve result for that date, an entry under
\* an asset key an asset result.  A step of a call reads the cache at most
\* under the call's own key, leaves the entry of every other key as it was,
\* leaves every other call where it was, and answers for its own date or id;
\* an arriving call misses when its own key is absent and is served its own
\* key's entry when that is unexpired, whatever else the cache holds; a step
\* of the clock leaves the cache alone.
C22_KeyIndependence ==
  [][/\ \A d \in WellFormedDates, id \in AssetIds : ResolutionKey(d) # AssetKey(id)
     /\ \A k \in DOMAIN cache' :
          \/ \E d \in WellFormedDates :
               /\ k = ResolutionKey(d)
               /\ cache'[k].data.date = d
               /\ cache'[k].data.source \in {SOURCE_TAGS[s] : s \in DOMAIN SOURCE_TAGS}
          \/ \E id \in AssetIds :
               /\ k = AssetKey(id)
               /\ cache'[k].data.source = Str(<<"images-asset">>)
     /\ \A r \in Reqs :
          Acts(r) =>
            /\ \A k \in (DOMAIN cache \cup DOMAIN cache') \ {KeyOf(Asked(r))} :
                 k \in DOMAIN cache /\ k \in DOMAIN cache' /\ cache'[k] = cache[k]
            /\ read' # NoRead => read'.key = KeyOf(Asked(r))
            /\ \A s \in Reqs \ {r} :
                 /\ pc'[s] = pc[s] /\ date'[s] = date[s]
                 /\ inflight'[s] = inflight[s] /\ calls'[s] = calls[s]
            /\ last' # NoLast => last'.date = Asked(r)
            /\ (Arrival /\ KeyOf(Asked(r)) \notin DOMAIN cache) =>
                 last' = NoLast /\ InFlight(r)'
            /\ (/\ Arrival
                /\ KeyOf(Asked(r)) \in DOMAIN cache
                /\ now <= cache[KeyOf(Asked(r))].expires) =>
                 /\ last'.status = 200
                 /\ WithoutCachedFlag(last'.body) = cache[KeyOf(Asked(r))].data
     /\ (~Arrival /\ pc' = pc) => cache' = cache]_vars

\* While a resolve call is in flight an asset call has come, got its listing
\* and written its entry, the only one in the cache.
C22_Witness ==
  /\ last.status = 200
  /\ last.date \in AssetIds
  /\ last.calls = <<"asset">>
  /\ ~last.solo
  /\ DOMAIN cache = {AssetKey(last.date)}
  /\ \E r \in Reqs : InFlight(r) /\ date[r] \in WellFormedDates

\* The resumption of call r with what its outbound request came back with.
Resume(r) ==
  \/ \E resp \in MixedApi : ApiReturn(r, resp) /\ UNCHANGED wrote
  \/ \E resp \in MixedPages : ScrapeReturn(r, resp) /\ UNCHANGED wrote
  \/ \E resp \in MixedAvail : WaybackAvailReturn(r, resp) /\ UNCHANGED wrote
  \/ \E resp \in MixedPages : WaybackPageReturn(r, resp) /\ UNCHANGED wrote
  \/ \E resp \in MixedSearch : SearchReturn(r, resp) /\ UNCHANGED wrote
  \/ \E resp \in MixedAssets : AssetReturn(r, resp)

LiveNext ==
  \/ \E r \in Reqs : Request(r, Str(DateA))
  \/ \E r \in Reqs : AssetRequest(r, [nasa_id |-> Str(IdA)])
  \/ \E r \in Reqs : Resume(r)
  \/ \E dt \in TickSteps : Tick(dt)

\* Every outbound request carries a timeout (server.js:50, 81, 93, 143, 162),
\* so an awaited request comes back: while calls are in flight, the resumption
\* of one of them is not put off for ever.
LiveSpec == Init /\ [][LiveNext]_vars /\ WF_vars(\E r \in Reqs : Resume(r))

\* The step is the return of call r's outbound request by timeout.
TimedOut(r) ==
  \/ ApiReturn(r, NetError) \/ ScrapeReturn(r, NetError)
  \/ WaybackAvailReturn(r, NetError) \/ WaybackPageReturn(r, NetError)
  \/ SearchReturn(r, NetError) \/ AssetReturn(r, NetError)
\* Where a call is after a timeout at each of its awaits.
AFTER_TIMEOUT == [api |-> "scrape", scrape |-> "wayback_avail", wayback_avail |-> "search",
                  wayback_page |-> "search", search |-> "idle", asset |-> "idle"]

\* C23: termination.  With every outbound request coming back (an answer, an
\* error or its timeout), every resolve call in flight and every resolveAsset
\* call in flight is eventually answered (a result or NotFound; a validation
\* error is answered in the arrival step); a call invokes each strategy at
\* most once, in order; and a timeout moves the call to the next strategy,
\* or, at the last one and in resolveAsset, to the NotFound answer.
C23_Termination ==
  /\ \A r \in Reqs :
       InFlight(r) ~> (~InFlight(r) /\ last.status \in {200, 404})
  /\ [](\A r \in Reqs : IsPrefix(calls[r], STRATEGY_ORDER) \/ calls[r] = <<"asset">>)
  /\ [][\A r \in Reqs :
          (InFlight(r) /\ pc'[r] # pc[r] /\ TimedOut(r)) =>
            /\ pc'[r] = AFTER_TIMEOUT[pc[r]]
            /\ IF pc'[r] = "idle" THEN last'.status = 404 ELSE last' = NoLast
            /\ cache' = cache]_vars

\* A resolve call has been answered NotFound after all four of its outbound
\* requests timed out, with nothing else going on.
C23_Witness ==
  /\ Quiet
  /\ last.status = 404
  /\ last.calls = STRATEGY_ORDER
  /\ last.final = "fault"
  /\ last.solo
  /\ cache = <<>>

\* C24: expiry is the only removal path.  A step removes a key from the cache
\* only if it is the read of that very key by an arriving call and finds the
\* entry past its expiry; so an unexpired entry is never removed, and no step
\* removes an entry of a key other than the one it reads.  An entry changes
\* only by a write of a call for that key, which puts a fresh result with a
\* new expiry in its place.
C24_ExpiryOnlyRemoval ==
  [][\A k \in DOMAIN cache :
       /\ k \notin DOMAIN cache' =>
            /\ Arrival
            /\ read' # NoRead /\ read'.key = k /\ read'.at = now
            /\ read'.entry = cache[k] /\ read'.ret = Null
            /\ now > cache[k].expires
       /\ now <= cache[k].expires => k \in DOMAIN cache'
       /\ (k \in DOMAIN cache' /\ cache'[k] # cache[k]) =>
            /\ Responds /\ last'.status = 200 /\ last'.calls # <<>>
            /\ k = KeyOf(last'.date)
            /\ cache'[k] = [data |-> last'.body, expires |-> now + 24 * 60 * 60 * 1000]]_vars

\* The read of an arriving asset call has found the entry of its id past its
\* expiry and removed it.
C24_Witness ==
  /\ read # NoRead
  /\ read.key \in {AssetKey(id) : id \in AssetIds}
  /\ read.entry # Null
  /\ read.at > read.entry.expires
  /\ read.key \notin DOMAIN cache

\* ============================================================ the client
\* The page's script (src/unnamed/part_002): its localStorage cache and the
\* two fetch functions that read and fill it.  A call of a fetch function
\* takes a request slot: `date` holds its argument, `pc` the await it is
\* suspended at, `last` what the function returned (status 200, body the
\* value) or that it threw (status 0, body Thrown), `read` its loadCache.
\* Keys of localStorage are sequences of characters: the code looks into
\* them (startsWith).
CACHE_PREFIX == <<"n", "a", "s", "a", "_", "c", "a", "c", "h", "e", "_">>
KEY_API_NASA == <<"a", "p", "i", "_", "k", "e", "y", "_", "n", "a", "s", "a">>
KEY_API_OMDB == <<"a", "p", "i", "_", "k", "e", "y", "_", "o", "m", "d", "b">>
APOD_KEY == <<"a", "p", "o", "d", "_">>
SEARCH_KEY == <<"s", "e", "a", "r", "c", "h", "_">>
SPACE_QUERY == <<"s", "p", "a", "c", "e">>
\* part_002:16-17.  The search TTL is the script's CACHE_TTL_MS.
SEARCH_CACHE_TTL_MS == 1000 * 60 * 60 * 6
APOD_CACHE_TTL_MS == 1000 * 60 * 60 * 24

\* JSON.stringify of the payload { ts, value }: a property whose value is
\* undefined is left out.  A text that is JSON is [json |-> what it parses to].
Stringify(ts, value) ==
  IF value = Undefined THEN [json |-> [ts |-> ts]] ELSE [json |-> [ts |-> ts, value |-> value]]
\* JSON.parse(raw): the value, or Thrown (a SyntaxError) for a text that is no JSON.
Parse(raw) == IF DOMAIN raw = {"json"} THEN raw.json ELSE Thrown
\* !raw for what getItem returns: null or the empty string.
NoText(raw) == raw = Null \/ raw = Str(<<>>)

\* localStorage.getItem / setItem / removeItem on the storage s.
getItem(s, key) == IF key \in DOMAIN s THEN s[key] ELSE Null
setItem(s, key, text) == (key :> text) @@ s
removeItem(s, key) == [k \in DOMAIN s \ {key} |-> s[k]]

\* `${CACHE_PREFIX}${key}`
cacheKey(key) == CACHE_PREFIX \o key

\* A faulty variant of saveCache: an empty list is not stored.
saveCacheNonEmpty(s, key, value, t) ==
  IF value = Arr(<<>>) THEN s ELSE setItem(s, cacheKey(key), Stringify(t, value))

\* saveCache(key, value) at time t: the storage after.
saveCache(s, key, value, t) == setItem(s, cacheKey(key), Stringify(t, value))

\* A faulty variant: the age of the entry is not looked at.
loadCacheAgeless(s, key, ttl, t) ==
  LET raw == getItem(s, cacheKey(key))
      parsed == IF NoText(raw) THEN Thrown ELSE Parse(raw)
  IN  [ret |-> IF parsed \in {Thrown, Null} THEN Null ELSE Or(Get(parsed, "value"), Null),
       storage |-> s]
\* loadCache(key, ttl) at time t: the value returned and the storage after.
\* parsed.ts of null throws, and the catch returns null.
loadCache(s, key, ttl, t) ==
  LET raw == getItem(s, cacheKey(key))
      parsed == IF NoText(raw) THEN Thrown ELSE Parse(raw)
  IN  IF NoText(raw) THEN [ret |-> Null, storage |-> s]
      ELSE IF parsed = Thrown \/ parsed = Null THEN [ret |-> Null, storage |-> s]
      ELSE IF "ts" \notin DOMAIN parsed \/ parsed.ts = 0
              \/ ~Truthy(Get(parsed, "value"))
        THEN [ret |-> Null, storage |-> s]
      ELSE IF t - parsed.ts > ttl
        THEN [ret |-> Null, storage |-> removeItem(s, cacheKey(key))]
        ELSE [ret |-> parsed.value, storage |-> s]

\* A faulty variant: localStorage.clear().
clearAllCacheEverything(s) == [k \in {} |-> s[k]]
\* clearAllCache(): Object.keys(localStorage) is taken once, then every key
\* with the prefix is removed.
clearAllCache(s) == [k \in {j \in DOMAIN s : ~StartsWith(j, CACHE_PREFIX)} |-> s[k]]

\* (query || 'space').trim(): blanks at both ends removed.
RECURSIVE TrimLeft(_)
TrimLeft(s) == IF Len(s) > 0 /\ s[1] = " " THEN TrimLeft(Tail(s)) ELSE s
RECURSIVE TrimRight(_)
TrimRight(s) == IF Len(s) > 0 /\ s[Len(s)] = " " THEN TrimRight(SubSeq(s, 1, Len(s) - 1)) ELSE s
Trim(s) == TrimRight(TrimLeft(s))

\* `${count}` for the counts of the model.
DecimalOf(n) == <<<<"0", "1", "2", "3", "4", "5", "6", "7", "8", "9">>[n + 1]>>

\* `apod_${dateStr}` and `search_${q}_${count}`
apodCacheKeyName(dateStr) == APOD_KEY \o dateStr
searchQuery(query) == Trim(IF query = <<>> THEN SPACE_QUERY ELSE query)
searchCacheKeyName(query, count) == SEARCH_KEY \o searchQuery(query) \o <<"_">> \o DecimalOf(count)

\* A faulty variant of fetchJson: the status is not looked at.
fetchJsonAnyStatus(resp) ==
  IF resp.error THEN Thrown ELSE Parse(resp.data)

\* resp.ok, and what `await fetch(...)` followed by `await resp.json()` gives:
\* Thrown for a rejected fetch, a status outside 200..299 or a body that is
\* no JSON.
fetchJson(resp) ==
  IF resp.error \/ resp.status < 200 \/ resp.status >= 300 THEN Thrown
  ELSE Parse(resp.data)

\* /\.(jpg|png|gif)$/i
GRID_IMAGE_EXTS == {<<".", "j", "p", "g">>, <<".", "p", "n", "g">>, <<".", "g", "i", "f">>}
IsGridImage(href) == \E e \in GRID_IMAGE_EXTS : EndsWith(Lower(href), e)

\* The simplified item of fetchImagesForQuery's map; part_002:646-662.
simplifiedItem(i) ==
  LET d0 == IF Truthy(Get(i, "data")) /\ Len(i.data.arr) > 0 THEN i.data.arr[1] ELSE Undefined
      d == IF Truthy(d0) THEN d0 ELSE [empty |-> TRUE]
      link == Or(Get(i.links.arr[1], "href"), Str(<<>>))
      pi == FirstIndex({j \in 1..Len(i.links.arr) :
                          Get(i.links.arr[j], "rel") = Str(<<"preview">>)})
      thumb == IF pi # 0 THEN Or(Get(i.links.arr[pi], "href"), link) ELSE link
  IN  [title |-> Or(Get(d, "title"), Or(Get(d, "description"), Str(<<>>))),
       url |-> link,
       thumbnail |-> thumb,
       media_type |-> Or(Get(d, "media_type"),
                         IF IsGridImage(link.str) THEN Str(IMAGE) ELSE Str(VIDEO)),
       date |-> Or(Get(d, "date_created"), Str(<<>>)),
       nasa_id |-> Or(Get(d, "nasa_id"), Or(Get(d, "identifier"), Str(<<>>))),
       description |-> Or(Get(d, "description"), Str(<<>>)),
       photographer |-> Or(Get(d, "photographer"), Or(Get(d, "center"), Str(<<>>))),
       center |-> Or(Get(d, "center"), Str(<<>>)),
       keywords |-> Or(Get(d, "keywords"), Arr(<<>>))]

\* The list fetchImagesForQuery builds from the parsed body: the items with
\* a non-empty links array, the first `count` of them, simplified.  Thrown
\* for a body whose reading raises a TypeError.
simplifiedItems(json, count) ==
  IF json \in {Null, Thrown} THEN Thrown
  ELSE IF ~Truthy(Get(json, "collection")) \/ ~Truthy(Get(json.collection, "items"))
    THEN Arr(<<>>)
  ELSE IF \E n \in 1..Len(json.collection.items.arr) :
            json.collection.items.arr[n] \in {Null, Undefined}
    THEN Thrown
  ELSE
    LET HasLinks(i) == IsArray(Get(i, "links")) /\ Len(i.links.arr) > 0
        kept == SelectSeq(json.collection.items.arr, HasLinks)
        first == SubSeq(kept, 1, IF Len(kept) < count THEN Len(kept) ELSE count)
    IN  Arr([n \in 1..Len(first) |-> simplifiedItem(first[n])])

\* ----------------------------------------------- inputs of the client
\* Date.now() when the page is loaded: a time after the epoch.
PageLoad == 1
QueryMars == <<"m", "a", "r", "s">>
QueryMarsBlanks == <<" ", "m", "a", "r", "s", " ">>
ClientDates == {DateA}
ClientQueries == {<<>>, QueryMarsBlanks}
ClientCounts == {1}
\* The clock moves by one TTL or the other: an entry is read at its TTL to
\* the millisecond, and past it.
ClientTickSteps == {SEARCH_CACHE_TTL_MS, APOD_CACHE_TTL_MS}

\* What /apod-proxy answers the page with.
ProxyResult ==
  [date |-> Str(DateA), title |-> Str(TitleNGC), explanation |-> Null, media_type |-> Str(IMAGE),
   url |-> Str(UrlImg), hdurl |-> Null, source |-> Str(SRC_APOD_API)]
ProxyResponses ==
  {NetError, Http(400, [json |-> ERR_FORMAT]), Http(404, [json |-> ERR_NOT_FOUND(Str(DateA))]),
   Http(200, Str(OtherText)), Http(200, [json |-> ProxyResult])}

\* What images-api.nasa.gov/search answers the page with.
PreviewLink == [href |-> Str(HrefThumb), rel |-> Str(<<"preview">>)]
FoundA == [links |-> Arr(<<[href |-> Str(HrefJson)], PreviewLink>>),
           data |-> Arr(<<[title |-> Str(TitleNGC), nasa_id |-> Str(IdA)]>>)]
FoundB == [links |-> Arr(<<PreviewLink>>), data |-> Arr(<<[description |-> Str(TextExpl)]>>)]
ImagesResponses ==
  {NetError, Http(500, Str(OtherText)), Http(200, [json |-> Null]),
   Http(200, [json |-> Collection(<<ItemNoLinks, ItemEmptyLinks>>)]),
   Http(200, [json |-> Collection(<<FoundA, ItemNoLinks, FoundB>>)])}

\* The list of every answer of the search for every count, computed once.
simplifiedItemsOn ==
  [resp \in ImagesResponses |->
     [count \in ClientCounts |-> simplifiedItems(fetchJson(resp), count)]]

\* What localStorage holds when the page is loaded: nothing, or the saved API
\* keys together with what other scripts of the origin left (an
\* entry in the older script's shape { ts, data }, a text that is no JSON,
\* keys that only resemble the prefix).
KEY_NO_UNDERSCORE == <<"n", "a", "s", "a", "_", "c", "a", "c", "h", "e">>
KEY_CAPITAL == <<"N", "a", "s", "a", "_", "c", "a", "c", "h", "e", "_", "x">>
StoredKeys == (KEY_API_NASA :> Str(<<"k-1">>)) @@ (KEY_API_OMDB :> Str(<<"k-1">>))
StoredForeign ==
  StoredKeys
  @@ (cacheKey(apodCacheKeyName(DateA)) :> [json |-> [ts |-> PageLoad, data |-> ProxyResult]])
  @@ (cacheKey(searchCacheKeyName(QueryMars, 1)) :> Str(OtherText))
  @@ (KEY_NO_UNDERSCORE :> Str(OtherText))
  @@ (KEY_CAPITAL :> [json |-> [ts |-> PageLoad, value |-> ProxyResult]])
InitialStorages == {<<>>, StoredForeign}

\* ------------------------------------------------ the client's steps
ClientInit ==
  /\ cache = <<>>
  /\ now = PageLoad
  /\ ticks = 0
  /\ started = 0
  /\ pc = [r \in Reqs |-> "idle"]
  /\ date = [r \in Reqs |-> Undefined]
  /\ inflight = [r \in Reqs |-> NoCall]
  /\ calls = [r \in Reqs |-> <<>>]
  /\ outcomes = [r \in Reqs |-> <<>>]
  /\ overlap = [r \in Reqs |-> FALSE]
  /\ last = NoLast
  /\ read = NoRead
  /\ wrote = <<>>
  /\ localStorage \in InitialStorages
  /\ fetched = Undefined
  /\ getImageBtn = [disabled |-> FALSE]

\* A fetch function returns ret (or throws: ret = Thrown), the storage being s.
Return(r, arg, ret, s, newCalls) ==
  /\ localStorage' = s
  /\ pc' = [pc EXCEPT ![r] = "idle"]
  /\ date' = [date EXCEPT ![r] = Undefined]
  /\ inflight' = [inflight EXCEPT ![r] = NoCall]
  /\ calls' = [calls EXCEPT ![r] = <<>>]
  /\ last' = [date |-> arg, status |-> IF ret = Thrown THEN 0 ELSE 200, body |-> ret,
              expires |-> 0, solo |-> ~overlap'[r], calls |-> newCalls, outcomes |-> <<>>,
              final |-> "none"]
  /\ UNCHANGED <<cache, outcomes, wrote, fetched, getImageBtn>>

\* A fetch function awaits fetch(url), suspended at p.
AwaitFetch(r, arg, p, to, s) ==
  /\ localStorage' = s
  /\ pc' = [pc EXCEPT ![r] = p]
  /\ date' = [date EXCEPT ![r] = arg]
  /\ inflight' = [inflight EXCEPT ![r] = [to |-> to, arg |-> arg]]
  /\ calls' = [calls EXCEPT ![r] = <<p>>]
  /\ last' = NoLast
  /\ UNCHANGED <<cache, outcomes, wrote, fetched, getImageBtn>>

\* A fetch function is called: loadCache, and on a miss the fetch up to its
\* await; part_002:597-603 and part_002:621-634.
Called(r, arg, keyName, ttl, p, to) ==
  /\ pc[r] = "idle"
  /\ \A s \in Reqs : s < r => pc[s] # "idle"
  /\ started < MaxCalls
  /\ started' = started + 1
  /\ overlap' = [s \in Reqs |-> IF s = r THEN \E o \in Reqs \ {r} : InFlight(o)
                                ELSE InFlight(s)]
  /\ UNCHANGED <<now, ticks>>
  /\ LET cached == loadCache(localStorage, keyName, ttl, now)
     IN  /\ read' = [key |-> cacheKey(keyName), entry |-> getItem(localStorage, cacheKey(keyName)),
                     ret |-> cached.ret, at |-> now]
         /\ IF Truthy(cached.ret)
              THEN Return(r, arg, cached.ret, cached.storage, <<>>)
              ELSE AwaitFetch(r, arg, p, to, cached.storage)

fetchApodForDate(r, dateStr) ==
  Called(r, Str(dateStr), apodCacheKeyName(dateStr), APOD_CACHE_TTL_MS, "proxy", "apod-proxy")

fetchImagesForQuery(r, query, count) ==
  Called(r, [query |-> Str(query), count |-> count], searchCacheKeyName(query, count),
         SEARCH_CACHE_TTL_MS, "images", "images-search")

\* fetchApodForDate resumes with the proxy's answer; part_002:604-616.
ProxyReturn(r, resp) ==
  /\ pc[r] = "proxy"
  /\ UNCHANGED <<now, ticks, started, overlap>>
  /\ read' = NoRead
  /\ LET data == fetchJson(resp)
     IN  IF data = Thrown
           THEN Return(r, date[r], Thrown, localStorage, calls[r])
           ELSE Return(r, date[r], data,
                       saveCache(localStorage, apodCacheKeyName(date[r].str), data, now), calls[r])

\* fetchImagesForQuery resumes with the search's answer; part_002:636-670.
ImagesReturn(r, resp) ==
  /\ pc[r] = "images"
  /\ UNCHANGED <<now, ticks, started, overlap>>
  /\ read' = NoRead
  /\ LET items == simplifiedItemsOn[resp][date[r].count]
     IN  IF items = Thrown
           THEN Return(r, date[r], Thrown, localStorage, calls[r])
           ELSE Return(r, date[r], items,
                       saveCache(localStorage,
                                 searchCacheKeyName(date[r].query.str, date[r].count), items, now),
                       calls[r])

\* The Clear Cache button, which stays enabled while a fetch is in flight;
\* part_002:791-795.
handleClearCache ==
  /\ localStorage' = clearAllCache(localStorage)
  /\ last' = NoLast
  /\ read' = NoRead
  /\ UNCHANGED <<cache, now, ticks, started, pc, date, inflight, calls, outcomes, overlap, wrote,
                 fetched, getImageBtn>>

ClientNext ==
  \/ \E r \in Reqs, dateStr \in ClientDates : fetchApodForDate(r, dateStr)
  \/ \E r \in Reqs, query \in ClientQueries, count \in ClientCounts :
       fetchImagesForQuery(r, query, count)
  \/ \E r \in Reqs, resp \in ProxyResponses : ProxyReturn(r, resp)
  \/ \E r \in Reqs, resp \in ImagesResponses : ImagesReturn(r, resp)
  \/ handleClearCache
  \/ \E dt \in ClientTickSteps : Tick(dt)

ClientSpec == ClientInit /\ [][ClientNext]_vars

\* ------------------------------------------------------------------ C25
\* C25 (Client Clear Cache): a Clear Cache step removes every localStorage
\* key that starts with nasa_cache_, of search and of APOD results alike,
\* adds none, and leaves every other key with its text, api_key_nasa and
\* api_key_omdb among them; in the storage it leaves, the loadCache that
\* opens the next fetch returns null for every date and for every query and
\* count, at once and at any later time.
C25_ClientClearCache ==
  [][handleClearCache =>
       /\ \A k \in DOMAIN localStorage :
            IF StartsWith(k, CACHE_PREFIX)
              THEN k \notin DOMAIN localStorage'
              ELSE k \in DOMAIN localStorage' /\ localStorage'[k] = localStorage[k]
       /\ DOMAIN localStorage' \subseteq DOMAIN localStorage
       /\ \A k \in {KEY_API_NASA, KEY_API_OMDB} :
            getItem(localStorage', k) = getItem(localStorage, k)
       /\ \A t \in {now', now' + SEARCH_CACHE_TTL_MS} :
            /\ \A d \in ClientDates :
                 loadCache(localStorage', apodCacheKeyName(d), APOD_CACHE_TTL_MS, t).ret = Null
            /\ \A query \in ClientQueries, count \in ClientCounts :
                 loadCache(localStorage', searchCacheKeyName(query, count),
                           SEARCH_CACHE_TTL_MS, t).ret = Null]_vars

\* Two fetches have run to their end and no time has passed, so that nothing
\* expired; the storage is the one that began with two entries under the
\* prefix, for it still has the API keys and the keys that only resemble the
\* prefix, and it has no key with the prefix: Clear Cache removed them.
C25_Witness ==
  /\ started = 2
  /\ ticks = 0
  /\ \A r \in Reqs : pc[r] = "idle"
  /\ last = NoLast
  /\ getItem(localStorage, KEY_API_NASA) # Null
  /\ getItem(localStorage, KEY_API_OMDB) # Null
  /\ KEY_NO_UNDERSCORE \in DOMAIN localStorage
  /\ KEY_CAPITAL \in DOMAIN localStorage
  /\ ~\E k \in DOMAIN localStorage : StartsWith(k, CACHE_PREFIX)

\* ------------------------------------------------------------------ C26
\* An entry: a text that parses to an object with members ts and value, as
\* saveCache writes it; its age at time t.
IsEntry(raw) ==
  /\ ~NoText(raw)
  /\ Parse(raw) \notin {Thrown, Null}
  /\ {"ts", "value"} \subseteq DOMAIN Parse(raw)
AgeOf(raw, t) == t - Parse(raw).ts

\* The step is a call of a fetch function that reads the cache under keyName
\* with the given TTL: what came of the read.
ReadUnderTtl(r, keyName, ttl) ==
  LET key == cacheKey(keyName)
      raw == getItem(localStorage, key)
      served == pc'[r] = "idle"
      old == IsEntry(raw) /\ AgeOf(raw, now) > ttl
  IN  /\ \/ ~served
          \/ /\ IsEntry(raw)
             /\ AgeOf(raw, now) <= ttl
             /\ last'.body = Parse(raw).value
             /\ read'.ret = Parse(raw).value
      /\ \/ ~old
          \/ /\ ~served
             /\ read'.ret = Null
             /\ key \notin DOMAIN localStorage'
             /\ \A k \in DOMAIN localStorage \ {key} :
                  k \in DOMAIN localStorage' /\ localStorage'[k] = localStorage[k]
      /\ \/ IsEntry(raw)
          \/ /\ ~served
             /\ read'.ret = Null

\* C26 (Client cache TTL): a call of fetchImagesForQuery returns a cached
\* list only from an entry no older than 6 hours, and a call of
\* fetchApodForDate a cached result only from an entry no older than 24
\* hours; the read of an entry older than its TTL returns null and removes
\* that entry, and no other, from localStorage; the read of a key that is
\* missing or whose text is no entry (no JSON, or JSON of another shape)
\* returns null.
C26_ClientCacheTtl ==
  [][\A r \in Reqs :
       /\ \A dateStr \in ClientDates :
            fetchApodForDate(r, dateStr)
              => ReadUnderTtl(r, apodCacheKeyName(dateStr), APOD_CACHE_TTL_MS)
       /\ \A query \in ClientQueries, count \in ClientCounts :
            fetchImagesForQuery(r, query, count)
              => ReadUnderTtl(r, searchCacheKeyName(query, count), SEARCH_CACHE_TTL_MS)]_vars

\* A search whose entry was 24 hours old when it was read: the read returned
\* null, the entry is gone and the search is asking the images API.
C26_Witness ==
  \E r \in Reqs :
    /\ pc[r] = "images"
    /\ IsEntry(read.entry)
    /\ read.key = cacheKey(searchCacheKeyName(date[r].query.str, date[r].count))
    /\ AgeOf(read.entry, read.at) = APOD_CACHE_TTL_MS
    /\ read.at = now
    /\ read.ret = Null
    /\ read.key \notin DOMAIN localStorage

\* ------------------------------------------------------------------ C27
\* The strategy a suspended call is in, and the outbound request that a call
\* suspended there is waiting for.
StrategyAt ==
  [api |-> "api", scrape |-> "scrape", wayback_avail |-> "wayback", wayback_page |-> "wayback",
   search |-> "search"]
OutboundAt ==
  [api |-> "apod-api", scrape |-> "page", wayback_avail |-> "wayback-available",
   wayback_page |-> "page", search |-> "images-search"]

\* A call is in exactly one strategy, waiting for exactly one outbound
\* request, the strategies before it having each completed with failure.
OneInFlight(r) ==
  IF pc[r] = "idle" THEN inflight[r] = NoCall /\ calls[r] = <<>> /\ outcomes[r] = <<>>
  ELSE /\ pc[r] \in DOMAIN StrategyAt
       /\ inflight[r].to = OutboundAt[pc[r]]
       /\ calls[r] # <<>>
       /\ IsPrefix(calls[r], STRATEGY_ORDER)
       /\ calls[r][Len(calls[r])] = StrategyAt[pc[r]]
       /\ Len(outcomes[r]) = Len(calls[r]) - 1
       /\ \A n \in 1..Len(outcomes[r]) : outcomes[r][n] = FALSE

\* A strategy is started in a step only as the first of a call, or by the
\* step in which the outbound request of its predecessor returned and the
\* predecessor failed; the one request the call waited for is then over.
StartedAfterFailure(r) ==
  \/ calls'[r] = calls[r]
  \/ calls'[r] = <<>>
  \/ /\ pc[r] = "idle"
     /\ calls'[r] = <<STRATEGY_ORDER[1]>>
  \/ /\ pc[r] # "idle"
     /\ calls'[r] = Append(calls[r], STRATEGY_ORDER[Len(calls[r]) + 1])
     /\ outcomes'[r] = Append(outcomes[r], FALSE)
     /\ StrategyAt[pc[r]] = STRATEGY_ORDER[Len(calls[r])]
     /\ StrategyAt[pc'[r]] = STRATEGY_ORDER[Len(calls[r]) + 1]
     /\ inflight'[r].to = OutboundAt[pc'[r]]

\* C27 (Sequential strategies): a call that is in flight is in one strategy
\* and waits for one outbound request, and every strategy before that one
\* has completed with failure; a strategy is started only by the step in
\* which its predecessor completed with failure (the first by the arrival):
\* no two strategies of a call are ever in flight together.
C27_SequentialStrategies ==
  /\ [](\A r \in Reqs : OneInFlight(r))
  /\ [][\A r \in Reqs : StartedAfterFailure(r)]_vars

\* A call waits for the keyword search, its fourth strategy, the three
\* before it having failed one after the other, while another call is in
\* its first.
C27_Witness ==
  \E r \in Reqs, s \in Reqs :
    /\ pc[r] = "search"
    /\ calls[r] = STRATEGY_ORDER
    /\ outcomes[r] = <<FALSE, FALSE, FALSE>>
    /\ inflight[r].to = "images-search"
    /\ pc[s] = "api"

\* ------------------------------------------------------------------ C28
\* The listing request failed: a network error or a timeout, a status that
\* is no success, or a payload without a collection.
ListingFailed(resp) ==
  \/ resp.error
  \/ resp.status \notin 200..299
  \/ ~Truthy(resp.data)
  \/ ~Truthy(Get(resp.data, "collection"))

\* What a failed listing request and what a listing without a best link
\* leave behind, the call r having asked for the id under key.
AfterListing(r, resp, key) ==
  /\ \/ ~ListingFailed(resp)
     \/ /\ last'.status = 404
        /\ last'.body = ERR_NO_ASSET
        /\ cache' = cache
  /\ \/ AssetOutcome(resp) # "nourl"
     \/ /\ last'.status = 200
        /\ last'.body.best = Null
        /\ key \in DOMAIN cache'
        /\ cache'[key] = Entry(last'.body, now + ASSET_TTL_MS)

\* A call for an id that the cache has no entry for asks upstream.
AsksUpstream(r, query) ==
  \/ ~Truthy(nasaIdOf(query))
  \/ assetCacheKey(nasaIdOf(query)) \in DOMAIN cache
  \/ /\ pc'[r] = "asset"
     /\ inflight'[r] = [to |-> "images-asset", arg |-> nasaIdOf(query)]
     /\ cache' = cache

\* C28 (Asset lookup failures are not cached): when the listing request of a
\* call fails (network error or timeout, a status that is no success, a
\* payload without a collection) the call is answered NotFound and the cache
\* is left as it was, so that the id still has no entry and the next call
\* for it, finding none, asks upstream again; a listing without a best link
\* is answered with best null and is written to the cache.
C28_AssetFailuresNotCached ==
  /\ [][\A r \in Reqs, resp \in AssetResponses :
          AssetReturn(r, resp) => AfterListing(r, resp, assetCacheKey(date[r]))]_vars
  /\ [][\A r \in Reqs, query \in AssetQueries :
          AssetRequest(r, query) => AsksUpstream(r, query)]_vars

\* With no time passed, the second call, which began after the first had
\* ended, has just been answered NotFound after its listing request failed,
\* and nothing is cached: neither call left an entry.
C28_Witness ==
  /\ started = 2
  /\ ticks = 0
  /\ \A r \in Reqs : pc[r] = "idle"
  /\ last.status = 404
  /\ last.body = ERR_NO_ASSET
  /\ last.calls = <<"asset">>
  /\ last.final = "fault"
  /\ last.solo
  /\ cache = <<>>

\* ------------------------------------------------------------------ C29
\* The availability lookup failed, or its answer reports no closest snapshot
\* that is available.
NoSnapshot(resp) ==
  \/ resp.error
  \/ resp.status # 200
  \/ ~Truthy(resp.data)
  \/ ~Truthy(Get(resp.data, "archived_snapshots"))
  \/ ~Truthy(Get(resp.data.archived_snapshots, "closest"))
  \/ ~Truthy(Get(resp.data.archived_snapshots.closest, "available"))

\* The strategy of call r has just failed: the call has gone on to the
\* keyword search, and waits for no page.
SnapshotFailed(r) ==
  /\ pc'[r] = "search"
  /\ inflight'[r].to = "images-search"
  /\ calls'[r] = Append(calls[r], "search")
  /\ outcomes'[r] = Append(outcomes[r], FALSE)

\* The availability answer resp has come back to call r.
AfterAvailability(r, resp) ==
  IF NoSnapshot(resp)
    THEN SnapshotFailed(r)
    ELSE /\ pc'[r] = "wayback_page"
         /\ inflight'[r] = [to |-> "page", arg |-> Get(resp.data.archived_snapshots.closest, "url")]
         /\ calls'[r] = calls[r]
         /\ outcomes'[r] = outcomes[r]

\* The snapshot's content resp has come back to call r: the strategy ends as
\* the Page Scrape extractor ends on resp.
AfterSnapshot(r, resp) ==
  IF scrapeApodPageOn[resp] = Null
    THEN SnapshotFailed(r)
    ELSE /\ last'.status = 200
         /\ last'.calls = <<"api", "scrape", "wayback">>
         /\ last'.body.url = scrapeApodPageOn[resp].raw.url
         /\ last'.body.title = scrapeApodPageOn[resp].raw.title
         /\ last'.body.explanation = scrapeApodPageOn[resp].raw.explanation

\* C29 (Archived-Snapshot strategy): when the availability lookup fails or
\* reports no available closest snapshot, the strategy fails and no page is
\* fetched; otherwise the one page fetched is the reported snapshot URL, and
\* the strategy ends as the Page Scrape extractor ends on the content of that
\* snapshot: with its url, title and explanation, or in failure.
C29_ArchivedSnapshot ==
  [][\A r \in Reqs :
       \/ pc'[r] = pc[r]
       \/ pc[r] \notin {"wayback_avail", "wayback_page"}
       \/ /\ \A resp \in AvailResponses :
               AfterAvailability(r, resp) \/ ~WaybackAvailReturn(r, resp)
          /\ \A resp \in PageResponses :
               AfterSnapshot(r, resp) \/ ~WaybackPageReturn(r, resp)]_vars

\* A call was answered from the archived snapshot, after the API and the
\* page scrape had failed, with the media URL the extractor finds in the
\* snapshot's document.
C29_Witness ==
  /\ last.status = 200
  /\ last.calls = <<"api", "scrape", "wayback">>
  /\ last.outcomes = <<FALSE, FALSE, TRUE>>
  /\ last.body.source = Str(SRC_APOD_WAYBACK)
  /\ last.body.url = scrapeApodPage(Http(200, DocLink)).raw.url

\* ===================================== scrapeApodPage on its own documents
\* The documents: with or without a title, up to MaxLinks <a> elements (one
\* without href, one whose href matches no media word, a relative and an
\* absolute one that match) and up to MaxImgs <img> elements (without src,
\* with an empty src, with a src), in every order.
MaxLinks == 2
MaxImgs == 2
SeqsUpTo(S, n) == UNION {[1..k -> S] : k \in 0..n}
PageHrefs == {Undefined, Str(HrefArchive), Str(HrefImage), Str(HrefAbs)}
PageSrcs == {Undefined, Str(<<>>), Str(SrcImg)}
Documents ==
  [title : {TitleNGC, <<>>}, b : {<<TextExpl>>}, a : SeqsUpTo(PageHrefs, MaxLinks),
   img : SeqsUpTo(PageSrcs, MaxImgs), text : {TextExpl}]
FetchedPages ==
  {NetError, Http(404, DocLink), Http(200, Str(<<>>))} \cup {Http(200, doc) : doc \in Documents}

\* scrapeApodPage(pageUrl) is to run, axios.get answering it with one of the
\* pages.
ExtractInit ==
  /\ cache = <<>>
  /\ now = 0
  /\ ticks = 0
  /\ started = 0
  /\ pc = [r \in Reqs |-> "idle"]
  /\ date = [r \in Reqs |-> Undefined]
  /\ inflight = [r \in Reqs |-> NoCall]
  /\ calls = [r \in Reqs |-> <<>>]
  /\ outcomes = [r \in Reqs |-> <<>>]
  /\ overlap = [r \in Reqs |-> FALSE]
  /\ last = NoLast
  /\ read = NoRead
  /\ wrote = <<>>
  /\ localStorage = <<>>
  /\ fetched \in FetchedPages
  /\ getImageBtn = [disabled |-> FALSE]

\* scrapeApodPage runs and returns.
scrapeApodPageAlone ==
  /\ last = NoLast
  /\ last' = [NoLast EXCEPT !.body = scrapeApodPage(fetched)]
  /\ UNCHANGED <<cache, now, ticks, started, pc, date, inflight, calls, outcomes, overlap, read,
                 wrote, localStorage, fetched, getImageBtn>>

ExtractNext == scrapeApodPageAlone

ExtractSpec == ExtractInit /\ [][ExtractNext]_vars

\* ------------------------------------------------------------------ C30
\* The hyperlinks of a document whose target matches the pattern of image,
\* video and page names, by their place in the document.
MediaLinks(doc) ==
  {i \in 1..Len(doc.a) : IsString(doc.a[i]) /\ LooksLikeMedia(doc.a[i].str)}
HasImgSrc(doc) == Len(doc.img) > 0 /\ IsString(doc.img[1]) /\ doc.img[1].str # <<>>
FetchedDocument ==
  /\ fetched # Undefined
  /\ ~fetched.error
  /\ fetched.status = 200
  /\ "a" \in DOMAIN fetched.data

\* C30 (Page Scrape media selection): on a successfully fetched document the
\* media URL is the target, made absolute, of the first hyperlink in document
\* order that matches the pattern; without such a hyperlink it is the source
\* of the first image element; without either scrapeApodPage returns null,
\* title and text notwithstanding.
C30_PageScrapeMediaSelection ==
  FetchedDocument /\ last # NoLast =>
    LET doc == fetched.data
        links == MediaLinks(doc)
        first == CHOOSE i \in links : \A j \in links : i <= j
    IN  IF links # {}
          THEN /\ last.body # Null
               /\ last.body.raw.url = Str(ResolveUrl(doc.a[first].str, APOD_BASE))
        ELSE IF HasImgSrc(doc)
          THEN /\ last.body # Null
               /\ last.body.raw.url = Str(ResolveUrl(doc.img[1].str, APOD_BASE))
          ELSE last.body = Null

\* A document whose first hyperlink matches nothing, whose second is a
\* relative link to an image, and which has an image element with a source:
\* the media URL is the second hyperlink's target under the APOD base.
C30_Witness ==
  /\ FetchedDocument
  /\ last # NoLast
  /\ fetched.data.a = <<Str(HrefArchive), Str(HrefImage)>>
  /\ fetched.data.img = <<Str(SrcImg)>>
  /\ last.body # Null
  /\ last.body.raw.url = Str(APOD_BASE \o HrefImage)

\* ============================ fetchImagesApiFallback on its own item lists
\* The search answers: a network error, a status other than 200, a body
\* without a collection, and every list of up to MaxItems items, an item
\* being null, without links, with no link, with a link that names no image,
\* with an image link after one that names none, or with two image links
\* and no data block.
MaxItems == 3
ItemTwoImages == [links |-> Arr(<<[href |-> Str(HrefSmall)], [href |-> Str(HrefMedium)]>>)]
SearchItems == {Null, ItemNoLinks, ItemEmptyLinks, ItemJson, ItemImage, ItemTwoImages}
FetchedSearches ==
  {NetError, Http(404, Collection(<<ItemImage>>)), Http(200, [reason |-> Str(OtherText)])}
    \cup {Http(200, Collection(items)) : items \in SeqsUpTo(SearchItems, MaxItems)}

\* fetchImagesApiFallback(date) is to run, axios.get answering it with one of
\* the search answers.
KeywordInit ==
  /\ cache = <<>>
  /\ now = 0
  /\ ticks = 0
  /\ started = 0
  /\ pc = [r \in Reqs |-> "idle"]
  /\ date = [r \in Reqs |-> Undefined]
  /\ inflight = [r \in Reqs |-> NoCall]
  /\ calls = [r \in Reqs |-> <<>>]
  /\ outcomes = [r \in Reqs |-> <<>>]
  /\ overlap = [r \in Reqs |-> FALSE]
  /\ last = NoLast
  /\ read = NoRead
  /\ wrote = <<>>
  /\ localStorage = <<>>
  /\ fetched \in FetchedSearches
  /\ getImageBtn = [disabled |-> FALSE]

\* fetchImagesApiFallback runs and returns.
fetchImagesApiFallbackAlone ==
  /\ last = NoLast
  /\ last' = [NoLast EXCEPT !.date = Str(DateA), !.final = "search",
                            !.body = fetchImagesApiFallback(DateA, fetched)]
  /\ UNCHANGED <<cache, now, ticks, started, pc, date, inflight, calls, outcomes, overlap, read,
                 wrote, localStorage, fetched, getImageBtn>>

KeywordNext == fetchImagesApiFallbackAlone

KeywordSpec == KeywordInit /\ [][KeywordNext]_vars

\* ------------------------------------------------------------------ C31
\* The items the search returned, in the order it returned them (none when
\* the request failed or the body holds no item list).
ReturnedItems ==
  IF fetched.error \/ fetched.status # 200 \/ "collection" \notin DOMAIN fetched.data
    THEN <<>>
    ELSE fetched.data.collection.items.arr
\* The links of an item that match the image-file-extension pattern, by
\* their place in the item.
ImageLinks(item) ==
  IF "links" \notin DOMAIN item THEN {}
  ELSE {j \in 1..Len(item.links.arr) : IsImageHref(item.links.arr[j].href.str)}
Qualifying == {i \in 1..Len(ReturnedItems) : ImageLinks(ReturnedItems[i]) # {}}
ItemText(item, field) ==
  IF "data" \in DOMAIN item THEN item.data.arr[1][field] ELSE Null
\* The strategy returned a result built from the first matching link of the
\* first qualifying item, with that item's title and description.
BuiltFromFirstQualifying ==
  LET item == ReturnedItems[Least(Qualifying)]
  IN  /\ last.body # Null
      /\ last.body.url = item.links.arr[Least(ImageLinks(item))].href
      /\ last.body.title = ItemText(item, "title")
      /\ last.body.explanation = ItemText(item, "description")
      /\ last.body.media_type = Str(IMAGE)
      /\ last.body.source = Str(SRC_IMAGES_FALLBACK)
      /\ last.body.date = last.date
\* An item that is no object stands before the first qualifying item: the
\* scan ends there with a TypeError, which the strategy catches.
BrokenBeforeFirst == \E i \in 1..Len(ReturnedItems) :
  ReturnedItems[i] = Null /\ \A j \in Qualifying : i < j

CacheHit == Arrival /\ read' # NoRead /\ read'.ret # Null
\* A hit leaves the whole Map as it is, reads an entry that is not past its
\* expiry, and answers with the stored value: a resolve with a copy that
\* carries the flag in addition, a resolveAsset with the value as it is.
HitLeavesEntry ==
  /\ cache' = cache
  /\ read'.key \in DOMAIN cache
  /\ read'.entry = cache[read'.key]
  /\ now <= cache[read'.key].expires
  /\ last'.status = 200
  /\ WithoutCachedFlag(last'.body) = cache[read'.key].data
  /\ "cached" \in DOMAIN last'.body <=> last'.date \in WellFormedDates
  /\ "cached" \in DOMAIN last'.body => last'.body.cached = JTrue
\* An entry appears or changes only by the write of a call that answers with
\* a fresh result; its expiry is then 24 hours after that step.
OnlyWritesStamp ==
  \A k \in DOMAIN cache' :
    (k \notin DOMAIN cache \/ cache'[k] # cache[k]) =>
      /\ Responds /\ last'.status = 200 /\ last'.calls # <<>>
      /\ cache'[k].expires = now + 24 * 60 * 60 * 1000

\* C32 (no sliding expiration): a cache hit in resolve or resolveAsset leaves
\* the stored value and its expiry unchanged; the cached flag is on the copy
\* that answers a resolve hit only, never in a stored entry and never in a
\* fresh response; an entry is stamped by the write that creates it with
\* an expiry 24 hours ahead and is served only up to that expiry.
C32_NoSlidingExpiration ==
  /\ [](\A k \in DOMAIN cache : "cached" \notin DOMAIN cache[k].data)
  /\ []((last.status = 200 /\ last.calls # <<>>) => "cached" \notin DOMAIN last.body)
  /\ [][(CacheHit => HitLeavesEntry) /\ OnlyWritesStamp]_vars

\* A resolve call was answered from the cache 24 hours after the write, at
\* the last instant of the entry, which is still as it was written.
C32_Witness ==
  /\ read # NoRead
  /\ read.ret # Null
  /\ read.at > 0
  /\ read.at = read.entry.expires
  /\ cache[read.key] = read.entry
  /\ last.body = withCachedFlag(read.entry.data)

\* ------------------------------------------------------------------ C33
\* The keys of a Map that are resolution keys: those that begin with "apod:".
ResolutionKeysOf(c) == {k \in DOMAIN c : k[1] = "apod:"}
\* The entry under key k is a result for the date in k, with the tag of one
\* of the four strategies and without the cached flag.
ResultForItsKey(k) ==
  /\ "cached" \notin DOMAIN cache[k].data
  /\ cache[k].data.date \in WellFormedDates
  /\ k = ResolutionKey(cache[k].data.date)
  /\ \E i \in 1..Len(STRATEGY_ORDER) : cache[k].data.source = SOURCE_OF[STRATEGY_ORDER[i]]
\* The step puts a new entry under key k: it is the step of a resolve call
\* for the date in k whose latest strategy has succeeded, and the entry's
\* value is the result that call is answered with.
ObservedWrite(k) ==
  /\ Responds
  /\ last'.status = 200
  /\ last'.calls # <<>>
  /\ k = ResolutionKey(last'.date)
  /\ cache'[k].data = last'.body
  /\ last'.body.source = SOURCE_OF[last'.calls[Len(last'.calls)]]

\* C33 (cache contents are caller-observed results): under any interleaving
\* of calls, every entry under a resolution key is a result for the date in
\* its key, and an entry appears or changes only in the step in which a
\* resolve call for that date is answered with exactly that value as the
\* result of the strategy that succeeded.
C33_CallerObservedResults ==
  /\ [](\A k \in ResolutionKeysOf(cache) : ResultForItsKey(k))
  /\ [][\A k \in ResolutionKeysOf(cache') :
          \/ (k \in DOMAIN cache /\ cache'[k] = cache[k])
          \/ ObservedWrite(k)]_vars

\* Two resolve calls for different dates overlapped; both results are in the
\* cache, each under the key of its date, the later one as it was just
\* answered.
C33_Witness ==
  /\ last.status = 200
  /\ last.calls # <<>>
  /\ ~last.solo
  /\ DOMAIN cache = {ResolutionKey(d) : d \in WellFormedDates}
  /\ cache[ResolutionKey(last.date)].data = last.body
  /\ \A d \in WellFormedDates : cache[ResolutionKey(d)].data.date = d

\* ========================================================= /image-proxy
\* The handler of /image-proxy (server.js:275-304).  A request slot holds
\* req.query.url where a date request holds the date; pc is "arrived" for a
\* request the handler has yet to run on, and "image" while axios.get(url)
\* is awaited.
ERR_MISSING_URL == [error |-> "Missing url query parameter"]
ERR_HOST == [error |-> "Host not allowed to be proxied"]
ERR_PROXY == [error |-> "Failed to proxy image"]
OCTET_STREAM == <<"application/octet-stream">>
MAX_AGE == <<"public, max-age=86400">>

\* server.js:281-291
ALLOW ==
  <<<<"a", "p", "o", "d", ".", "n", "a", "s", "a", ".", "g", "o", "v">>,
    <<"i", "m", "a", "g", "e", "s", "-", "a", "p", "i", ".", "n", "a", "s", "a", ".", "g", "o", "v">>,
    <<"i", "m", "a", "g", "e", "s", ".", "n", "a", "s", "a", ".", "g", "o", "v">>,
    <<"i", "m", "g", ".", "y", "o", "u", "t", "u", "b", "e", ".", "c", "o", "m">>,
    <<"i", ".", "y", "t", "i", "m", "g", ".", "c", "o", "m">>,
    <<"w", "w", "w", ".", "y", "o", "u", "t", "u", "b", "e", ".", "c", "o", "m">>,
    <<"i", "m", "a", "g", "e", "s", ".", "s", "p", "a", "c", "e", "r", "e", "f", ".", "c", "o", "m">>,
    <<"i", ".", "i", "m", "g", "u", "r", ".", "c", "o", "m">>,
    <<"p", "b", "s", ".", "t", "w", "i", "m", "g", ".", "c", "o", "m">>>>

\* new URL(url).hostname, for the absolute URLs with an authority and for
\* what has no such shape: Thrown is the TypeError of an invalid URL.  The
\* scheme is what stands before the first colon, if it starts with a letter
\* and holds letters, digits, +, - and . only; without one the URL is
\* relative and invalid.  Behind a scheme without // there is no host.  The
\* authority ends at the first /, ? or #; the host stands behind the last @
\* and before the last colon; behind that colon stands the port, digits
\* only.  A host of a special scheme is not empty, holds no forbidden
\* character and comes back in lower case.
Letters == DOMAIN UpperToLower \cup {UpperToLower[c] : c \in DOMAIN UpperToLower}
SchemeChars == Letters \cup Digits \cup {"+", "-", "."}
SPECIAL_SCHEMES == {<<"h", "t", "t", "p">>, <<"h", "t", "t", "p", "s">>, <<"f", "t", "p">>, <<"w", "s">>, <<"w", "s", "s">>}
ForbiddenHostChars == {" ", "<", ">", "[", "]", "^", "|", "%"}
LastIndex(hits) == IF hits = {} THEN 0 ELSE CHOOSE i \in hits : \A j \in hits : i >= j
NewURL(s) ==
  LET colon == FirstIndex({i \in 1..Len(s) : s[i] = ":"})
      scheme == Lower(SubSeq(s, 1, colon - 1))
      rest == SubSeq(s, colon + 1, Len(s))
      a == SubSeq(rest, 3, Len(rest))
      stop == FirstIndex({i \in 1..Len(a) : a[i] \in {"/", "?", "#"}})
      auth == IF stop = 0 THEN a ELSE SubSeq(a, 1, stop - 1)
      at == LastIndex({i \in 1..Len(auth) : auth[i] = "@"})
      hostport == SubSeq(auth, at + 1, Len(auth))
      pcolon == LastIndex({i \in 1..Len(hostport) : hostport[i] = ":"})
      host == IF pcolon = 0 THEN hostport ELSE SubSeq(hostport, 1, pcolon - 1)
      port == IF pcolon = 0 THEN <<>> ELSE SubSeq(hostport, pcolon + 1, Len(hostport))
  IN  IF colon <= 1 \/ s[1] \notin Letters \/ \E i \in 1..(colon - 1) : s[i] \notin SchemeChars
        THEN Thrown
      ELSE IF ~StartsWith(rest, <<"/", "/">>)
        THEN IF scheme \in SPECIAL_SCHEMES THEN Thrown ELSE [hostname |-> <<>>]
      ELSE IF \E i \in 1..Len(port) : port[i] \notin Digits THEN Thrown
      ELSE IF scheme \in SPECIAL_SCHEMES
        THEN IF host = <<>> \/ \E i \in 1..Len(host) : host[i] \in ForbiddenHostChars
               THEN Thrown
               ELSE [hostname |-> Lower(host)]
        ELSE [hostname |-> host]

\* A faulty variant of the allowlist test: the dot before the allowed host
\* left out of the suffix.
hostAllowedNoDot(hostname) ==
  \E i \in 1..Len(ALLOW) : hostname = ALLOW[i] \/ EndsWith(hostname, ALLOW[i])

\* allow.some(a => hostname === a || hostname.endsWith('.' + a))
hostAllowed(hostname) ==
  \E i \in 1..Len(ALLOW) : hostname = ALLOW[i] \/ EndsWith(hostname, <<".">> \o ALLOW[i])

\* The values of req.query.url: none, the empty string, and every string put
\* together from a scheme or none, credentials or none, a host, a port or
\* none and a path or none.  The hosts: each allowed host, two hosts that
\* are not allowed and no host, each as it is, as a subdomain and with "x"
\* put before it, each of these as it is and as a subdomain of evil.com; two
\* allowed hosts with capital letters, and a host with a blank.
UrlSchemes == {<<>>, <<"h", "t", "t", "p", "s", ":", "/", "/">>}
UrlCredentials == {<<>>, <<"a", "p", "o", "d", ".", "n", "a", "s", "a", ".", "g", "o", "v", "@">>}
UrlBases == {ALLOW[i] : i \in 1..Len(ALLOW)} \cup {<<"e", "v", "i", "l", ".", "c", "o", "m">>, <<"n", "a", "s", "a", ".", "g", "o", "v">>, <<>>}
UrlHosts ==
  {pre \o base \o suf : pre \in {<<>>, <<"x", ".">>, <<"x">>}, base \in UrlBases, suf \in {<<>>, <<".", "e", "v", "i", "l", ".", "c", "o", "m">>}}
    \cup {<<"A", "P", "O", "D", ".", "N", "A", "S", "A", ".", "G", "O", "V">>, <<"X", ".", "I", "m", "a", "g", "e", "s", ".", "N", "A", "S", "A", ".", "g", "o", "v">>, <<"a", "p", "o", "d", " ", "n", "a", "s", "a", ".", "g", "o", "v">>}
UrlPorts == {<<>>, <<":", "8", "0", "8", "0">>, <<":", "8", "0", "a">>}
UrlPaths == {<<>>, <<"/", "a", "p", "o", "d", ".", "n", "a", "s", "a", ".", "g", "o", "v", "/", "a", ".", "j", "p", "g">>}
ProxyUrls ==
  {Undefined, Str(<<>>)} \cup
  {Str(scheme \o cred \o host \o port \o path) :
     scheme \in UrlSchemes, cred \in UrlCredentials, host \in UrlHosts, port \in UrlPorts,
     path \in UrlPaths}

\* What axios.get(url, { responseType: 'stream' }) comes back with.
ImageStream == <<"stream">>
ImageAnswers ==
  {NetError, Http(404, Str(OtherText)),
   Http(200, [stream |-> ImageStream, contentType |-> Str(<<"image/jpeg">>)]),
   Http(200, [stream |-> ImageStream])}

\* A request for /image-proxy has arrived in the first slot.
ImageProxyInit ==
  /\ cache = <<>>
  /\ now = 0
  /\ ticks = 0
  /\ started = 1
  /\ pc = [r \in Reqs |-> IF r = 1 THEN "arrived" ELSE "idle"]
  /\ date \in {[r \in Reqs |-> IF r = 1 THEN url ELSE Undefined] : url \in ProxyUrls}
  /\ inflight = [r \in Reqs |-> NoCall]
  /\ calls = [r \in Reqs |-> <<>>]
  /\ outcomes = [r \in Reqs |-> <<>>]
  /\ overlap = [r \in Reqs |-> FALSE]
  /\ last = NoLast
  /\ read = NoRead
  /\ wrote = <<>>
  /\ localStorage = <<>>
  /\ fetched = Undefined
  /\ getImageBtn = [disabled |-> FALSE]

\* The handler runs up to its answer or to the await of axios.get;
\* server.js:276-295.
ImageProxy(r) ==
  /\ pc[r] = "arrived"
  /\ UNCHANGED <<now, ticks, started, overlap, wrote>>
  /\ read' = NoRead
  /\ LET url == date[r]
         parsed == IF IsString(url) THEN NewURL(url.str) ELSE Thrown
     IN  IF ~Truthy(url)
           THEN Answer(r, url, 400, ERR_MISSING_URL, 0, cache, <<>>, "none")
         ELSE IF parsed = Thrown
           THEN Answer(r, url, 500, ERR_PROXY, 0, cache, <<>>, "none")
         ELSE IF ~hostAllowed(Lower(parsed.hostname))
           THEN Answer(r, url, 403, ERR_HOST, 0, cache, <<>>, "none")
           ELSE Await(r, url, "image", "image-upstream", url, cache, <<"image">>, <<>>)

\* axios.get has answered: the stream is piped with its content type, or
\* the catch answers 500; server.js:295-303.
ImageReturn(r, resp) ==
  /\ pc[r] = "image"
  /\ UNCHANGED <<now, ticks, started, overlap, wrote>>
  /\ read' = NoRead
  /\ LET res == axiosGet(resp)
     IN  IF res = Thrown
           THEN Answer(r, date[r], 500, ERR_PROXY, 0, cache, calls[r], "fault")
           ELSE Answer(r, date[r], 200,
                       [contentType |-> Or(Get(res.data, "contentType"), Str(OCTET_STREAM)),
                        cacheControl |-> Str(MAX_AGE), piped |-> res.data.stream],
                       0, cache, calls[r], "url")

ImageProxyNext ==
  \/ \E r \in Reqs : ImageProxy(r)
  \/ \E r \in Reqs, resp \in ImageAnswers : ImageReturn(r, resp)

ImageProxySpec == ImageProxyInit /\ [][ImageProxyNext]_vars

\* ------------------------------------------------------------------ C34
\* The url of a request: missing, unparsable, or with a host.
UrlMissing(url) == url \in {Undefined, Str(<<>>)}
UrlParses(url) == ~UrlMissing(url) /\ NewURL(url.str) # Thrown
\* The lower-cased hostname is an allowlisted host or a subdomain of one.
OnAllowlist(url) ==
  LET hostname == Lower(NewURL(url.str).hostname)
  IN  \E i \in 1..Len(ALLOW) :
        \/ hostname = ALLOW[i]
        \/ \E sub \in 1..Len(hostname) :
             /\ hostname[sub] = "."
             /\ SubSeq(hostname, sub + 1, Len(hostname)) = ALLOW[i]
\* The request was answered with the status, and no upstream request made.
RefusedWith(status) == last.status = status /\ last.calls = <<>>

\* C34 (image proxy allowlist): an upstream fetch is in flight or was made
\* only for the requested URL, and only if it parses and its lower-cased
\* hostname is an allowlisted host or a subdomain of one; a missing url is
\* answered 400, an unparsable one 500, one with another host 403, each
\* without an upstream request.
C34_ImageProxyAllowlist ==
  /\ \A r \in Reqs :
       pc[r] = "image" =>
         /\ UrlParses(date[r]) /\ OnAllowlist(date[r])
         /\ inflight[r] = [to |-> "image-upstream", arg |-> date[r]]
  /\ last # NoLast =>
       IF UrlMissing(last.date) THEN RefusedWith(400)
       ELSE IF ~UrlParses(last.date) THEN RefusedWith(500)
       ELSE IF ~OnAllowlist(last.date) THEN RefusedWith(403)
       ELSE last.calls = <<"image">>

\* A URL whose host only ends like an allowed host, with credentials that
\* read like one and a path that names one, was refused with 403.
C34_Witness ==
  /\ last.date = Str(<<"h", "t", "t", "p", "s", ":", "/", "/", "a", "p", "o", "d", ".", "n", "a", "s", "a", ".", "g", "o", "v", "@", "x", "a", "p", "o", "d", ".", "n", "a", "s", "a", ".", "g", "o", "v", ":", "8", "0", "8", "0", "/", "a", "p", "o", "d", ".", "n", "a", "s", "a", ".", "g", "o", "v", "/", "a", ".", "j", "p", "g">>)
  /\ last.status = 403
  /\ last.calls = <<>>

\* ================================================ the page's fetch button
\* handleFetchClick (part_002:674-788) and the events that call it.  A slot
\* holds a flow of handleFetchClick that waits for a fetch: pc is "proxy"
\* while fetchApodForDate awaits the proxy and "images" while
\* fetchImagesForQuery awaits the search; date holds the flow's locals and
\* inflight the request it waits for.  A flow that finds what it needs in
\* localStorage runs to its end without waiting.
\* dateSelect.value, queryInput.value and numSelect.value at an event: a
\* date, a date the pattern rejects with a query, and neither.
Selections ==
  {[date |-> DateA, query |-> <<>>, count |-> 1],
   [date |-> DateLetters, query |-> QueryMars, count |-> 1],
   [date |-> <<>>, query |-> <<>>, count |-> 1]}

\* What the flows read and write.
PageState ==
  [btn |-> getImageBtn, storage |-> localStorage, pc |-> pc, date |-> date,
   inflight |-> inflight]
Becomes(pg) ==
  /\ getImageBtn' = pg.btn
  /\ localStorage' = pg.storage
  /\ pc' = pg.pc
  /\ date' = pg.date
  /\ inflight' = pg.inflight

\* The finally block of flow r, which has ended; part_002:777-787.
Finished(pg, r, locals) ==
  [pg EXCEPT !.btn = IF locals.buttonDisabledByUs THEN [disabled |-> FALSE] ELSE pg.btn,
             !.pc[r] = "idle", !.date[r] = Undefined, !.inflight[r] = NoCall]

\* Flow r calls fetchImagesForQuery(query, count), as its search or as its
\* fallback: up to the await of fetch, or through the cached list to the end.
SearchFrom(pg, r, locals, query, count) ==
  LET cached == loadCache(pg.storage, searchCacheKeyName(query, count), SEARCH_CACHE_TTL_MS, now)
      read0 == [pg EXCEPT !.storage = cached.storage]
  IN  IF Truthy(cached.ret)
        THEN Finished(read0, r, locals)
        ELSE [read0 EXCEPT !.pc[r] = "images", !.date[r] = locals,
                           !.inflight[r] = [to |-> "images-search",
                                            arg |-> [query |-> Str(query), count |-> count]]]

\* Flow r calls fetchApodForDate(selectedDate).
ApodFrom(pg, r, locals) ==
  LET cached == loadCache(pg.storage, apodCacheKeyName(locals.selectedDate),
                          APOD_CACHE_TTL_MS, now)
      read0 == [pg EXCEPT !.storage = cached.storage]
  IN  IF Truthy(cached.ret)
        THEN Finished(read0, r, locals)
        ELSE [read0 EXCEPT !.pc[r] = "proxy", !.date[r] = locals,
                           !.inflight[r] = [to |-> "apod-proxy",
                                            arg |-> Str(locals.selectedDate)]]

\* handleFetchClick() in slot r, from its call to its first await (or its
\* end): the button is disabled if it is not, and whether or not this flow
\* disabled it the flow goes on to its fetch; part_002:679-703, 768-771.
handleFetchClickFrom(pg, r, sel) ==
  LET selectedDate == IF DateRegex(sel.date) THEN sel.date ELSE <<>>
      locals == [selectedDate |-> selectedDate, query |-> sel.query, count |-> sel.count,
                 buttonDisabledByUs |-> ~pg.btn.disabled]
      working == [pg EXCEPT !.btn = [disabled |-> TRUE]]
  IN  IF selectedDate # <<>>
        THEN ApodFrom(working, r, locals)
        ELSE SearchFrom(working, r, locals, sel.query, sel.count)

\* `${year} apod`
fallbackQuery(selectedDate) == SubSeq(selectedDate, 1, 4) \o <<" ", "a", "p", "o", "d">>

FreeSlots == {r \in Reqs : pc[r] = "idle"}
OfPage ==
  /\ last' = NoLast
  /\ read' = NoRead
  /\ UNCHANGED <<cache, now, ticks, calls, outcomes, overlap, wrote, fetched>>

\* A click on the fetch button, which a disabled button does not take.  The
\* button has two listeners, both handleFetchClick (addEventListener and
\* onclick, part_002:895-896): they run one after the other.
ClickButton(sel) ==
  /\ ~getImageBtn.disabled
  /\ started + 2 <= MaxCalls
  /\ started' = started + 2
  /\ \E r1, r2 \in FreeSlots :
       /\ r1 < r2
       /\ \A r \in FreeSlots : r = r1 \/ r2 <= r
       /\ Becomes(handleFetchClickFrom(handleFetchClickFrom(PageState, r1, sel), r2, sel))
  /\ OfPage

\* Enter in the query input, whatever the state of the button;
\* part_002:901-908.
PressEnter(sel) ==
  /\ started < MaxCalls
  /\ started' = started + 1
  /\ \E r \in FreeSlots :
       /\ \A s \in FreeSlots : r <= s
       /\ Becomes(handleFetchClickFrom(PageState, r, sel))
  /\ OfPage

\* The proxy has answered flow r: the APOD is saved and shown and the flow
\* ends, or the flow goes on to its fallback search; part_002:703-765.
FlowProxyReturn(r, resp) ==
  /\ pc[r] = "proxy"
  /\ UNCHANGED started
  /\ OfPage
  /\ LET data == fetchJson(resp)
         locals == date[r]
         saved == [PageState EXCEPT
                     !.storage = saveCache(localStorage, apodCacheKeyName(locals.selectedDate),
                                           data, now)]
     IN  IF data = Thrown
           THEN Becomes(SearchFrom(PageState, r, locals, fallbackQuery(locals.selectedDate),
                                   locals.count))
           ELSE Becomes(Finished(saved, r, locals))

\* The search has answered flow r: the flow ends, with the list saved if
\* there is one; part_002:636-670, 744-787.
FlowImagesReturn(r, resp) ==
  /\ pc[r] = "images"
  /\ UNCHANGED started
  /\ OfPage
  /\ LET asked == inflight[r].arg
         items == simplifiedItemsOn[resp][asked.count]
         saved == [PageState EXCEPT
                     !.storage = saveCache(localStorage,
                                           searchCacheKeyName(asked.query.str, asked.count),
                                           items, now)]
     IN  IF items = Thrown
           THEN Becomes(Finished(PageState, r, date[r]))
           ELSE Becomes(Finished(saved, r, date[r]))

PageNext ==
  \/ \E sel \in Selections : ClickButton(sel)
  \/ \E sel \in Selections : PressEnter(sel)
  \/ \E r \in Reqs, resp \in ProxyResponses : FlowProxyReturn(r, resp)
  \/ \E r \in Reqs, resp \in ImagesResponses : FlowImagesReturn(r, resp)

PageSpec == ClientInit /\ [][PageNext]_vars

\* ------------------------------------------------------------------ C35
\* The flows of handleFetchClick that have begun, have issued a fetch and
\* have not reached their finally block.
Working == {r \in Reqs : pc[r] # "idle"}

\* C35 (client single-flight fetch): from the moment one handleFetchClick flow
\* begins until its finally block runs no second flow issues a fetch, after
\* one click, after repeated clicks and after Enter in the query input, and
\* the button is not enabled while a flow is still in flight.
C35_SingleFlightFetch ==
  /\ Cardinality(Working) <= 1
  /\ Working # {} => getImageBtn.disabled

\* ------------------------------------------------------------------ C36
\* The proxy answered with a success status.
SuccessStatus(resp) == ~resp.error /\ resp.status >= 200 /\ resp.status <= 299
\* The proxy answered with a validation error or NotFound, or not at all.
ProxyFailure(resp) == resp.error \/ resp.status \in {400, 404}
\* The keys of localStorage' whose text the step has written.
WrittenKeys == {k \in DOMAIN localStorage' : getItem(localStorage, k) # localStorage'[k]}
\* The latest step was a lookup of dateStr, alone, that ended in a throw
\* after its request to the proxy.
JustFailed(dateStr) ==
  last.status = 0 /\ last.calls = <<"proxy">> /\ last.solo /\ last.date = Str(dateStr)

\* C36 (client APOD caching stores successes only): the entry of a date is
\* written only by the return of a lookup of that date whose request the
\* proxy answered with a success status, and holds what the lookup returns;
\* on a validation error, NotFound or a network failure the lookup writes
\* nothing and throws, and the next lookup of that date asks the proxy
\* again; a lookup that finds the entry in the cache returns it and asks
\* nobody.
C36_ClientApodSuccessOnly ==
  [][\A r \in Reqs :
       /\ \/ pc[r] # "proxy"
          \/ pc'[r] = pc[r]
          \/ \A resp \in ProxyResponses :
               \/ /\ \/ WrittenKeys = {}
                     \/ /\ SuccessStatus(resp)
                        /\ WrittenKeys = {cacheKey(apodCacheKeyName(date[r].str))}
                        /\ \A k \in WrittenKeys : Parse(localStorage'[k]).value = last'.body
                  /\ \/ ~ProxyFailure(resp)
                     \/ (localStorage' = localStorage /\ last'.body = Thrown)
               \/ ~ProxyReturn(r, resp)
       /\ \A dateStr \in ClientDates :
            /\ \/ cacheKey(apodCacheKeyName(dateStr)) \notin WrittenKeys
               \/ \E s \in Reqs : pc[s] = "proxy" /\ date[s] = Str(dateStr) /\ pc'[s] = "idle"
            /\ \/ started' = started
               \/ pc[r] # "idle"
               \/ /\ WrittenKeys = {}
                  /\ IF read'.ret # Null
                       THEN /\ pc' = pc /\ inflight' = inflight
                            /\ last'.body = read'.ret /\ last'.calls = <<>>
                            /\ ~JustFailed(dateStr)
                       ELSE /\ pc'[r] = "proxy"
                            /\ inflight'[r] = [to |-> "apod-proxy", arg |-> Str(dateStr)]
               \/ ~fetchApodForDate(r, dateStr)]_vars

\* The proxy answered the only lookup so far with an error: the lookup has
\* thrown, and localStorage has no entry for the date.
C36_Witness ==
  /\ started = 1
  /\ last.status = 0
  /\ last.body = Thrown
  /\ last.calls = <<"proxy">>
  /\ last.date = Str(DateA)
  /\ cacheKey(apodCacheKeyName(DateA)) \notin DOMAIN localStorage

\* ------------------------------------------------------------------ C37
\* The localStorage key of the search that call r is making.
SearchKeyOf(r) == cacheKey(searchCacheKeyName(date[r].query.str, date[r].count))
\* The search has answered call r with resp: a successful search returns its
\* list, and whenever the call returns a list, empty or not, the entry of
\* the query and count holds that list with the time of the step.
StoresItsList(r, resp) ==
  /\ \/ ~(SuccessStatus(resp) /\ Parse(resp.data) \notin {Thrown, Null})
     \/ (last'.status = 200 /\ IsArray(last'.body))
  /\ \/ last'.status # 200
     \/ /\ SearchKeyOf(r) \in DOMAIN localStorage'
        /\ Parse(localStorage'[SearchKeyOf(r)]) = [ts |-> now, value |-> last'.body]
\* Call r of fetchImagesForQuery(query, count) begins: if the entry of the
\* query and count holds a list stored at most 6 hours ago, the call returns
\* that list, and no request goes out.
ServesStoredList(r, query, count) ==
  LET raw == getItem(localStorage, cacheKey(searchCacheKeyName(query, count)))
  IN  \/ ~IsEntry(raw)
      \/ ~IsArray(Parse(raw).value)
      \/ AgeOf(raw, now) > 6 * 60 * 60 * 1000
      \/ /\ pc' = pc
         /\ inflight' = inflight
         /\ last'.status = 200
         /\ last'.calls = <<>>
         /\ last'.body = Parse(raw).value
         /\ localStorage' = localStorage

\* C37 (client search caching of empty results): fetchImagesForQuery stores
\* the result list of every successful search, an empty list included, and
\* a later call with the same query and count within 6 hours returns the
\* stored list, also an empty one, without a network request.
C37_ClientSearchCachesEmpty ==
  [][\A r \in Reqs :
       /\ \/ pc[r] # "images"
          \/ pc'[r] = pc[r]
          \/ \A resp \in ImagesResponses : StoresItsList(r, resp) \/ ~ImagesReturn(r, resp)
       /\ \/ started' = started
          \/ pc[r] # "idle"
          \/ \E s \in Reqs : s < r /\ pc[s] = "idle"
          \/ \A query \in ClientQueries, count \in ClientCounts :
               \/ read'.key # cacheKey(searchCacheKeyName(query, count))
               \/ ServesStoredList(r, query, count)
               \/ ~fetchImagesForQuery(r, query, count)]_vars

\* A search was answered from the cache with the empty list that was stored
\* exactly 6 hours before, and nothing was asked of the images API.
C37_Witness ==
  /\ last.status = 200
  /\ last.calls = <<>>
  /\ last.body = Arr(<<>>)
  /\ read # NoRead
  /\ IsEntry(read.entry)
  /\ AgeOf(read.entry, read.at) = 6 * 60 * 60 * 1000
  /\ read.ret = Arr(<<>>)
  /\ \A r \in Reqs : pc[r] = "idle"
====
